---- MODULE Spec2Model ----
(***************************************************************************)
(* A model of the scan coordination engine of qdlutils:                    *)
(*   - ScanController  (applications/qdlscan/application_controller.py)    *)
(*   - its consumers   (applications/qdlscan/main.py)                      *)
(*   - NidaqBatchedRateCounter / NidaqTimedRateCounter (hardware/nidaq)    *)
(*   - the axis device (go_to_position of the NIDAQ piezo controller)      *)
(*                                                                         *)
(* Numbers.  The program computes with floats; the model computes with     *)
(* exact fixed-point integers: a position or a time v is held as v*Scale,  *)
(* where Scale is a multiple of every divisor the program divides by       *)
(* (n_pixels and n_pixels-1 up to the pixel bound), so that every          *)
(* division of the model is exact.                                         *)
(*                                                                         *)
(* Specifications.                                                         *)
(*   Spec        the ScanController and its consumers; a step is a call    *)
(*               up to its first hardware wait, one move, one read, one    *)
(*               delivered row, one call of home_position.                 *)
(*   SpecBusy    set_axis and scan_axis statement by statement around the  *)
(*               busy flag, run by two threads, and get_position.          *)
(*   SpecCounter start(), stop() and _read_samples of the counter          *)
(*               statement by statement, run by two threads.               *)
(*   SpecSample  the counter's sampling views and configure_sample_time,   *)
(*               called one at a time; one step per batch read.            *)
(*   SpecScope   the scope application: its start, stop and reset commands *)
(*               and the sampling workers they launch.                     *)
(*   SpecPle     the PLE scanner: configure_scan and one thread running    *)
(*               single_scan sample by sample; its floats are binary       *)
(*               floating point numbers of MantissaBits significant bits.  *)
(*   SpecShared  the launcher's scans together with the counter window's   *)
(*               continuous sampling.                                      *)
(*   SpecImage   one image window paused and continued, row by row; the    *)
(*               positions of its slow axis are such floats.               *)
(*   SpecLine    the launcher's optimize buttons and the line scan windows *)
(*               they open, with the limits read from the YAML file.       *)
(*   SpecPleLoop the PLE application's start and stop buttons and its scan *)
(*               thread, one step per sweep.                               *)
(*   SpecCounterFair  SpecCounter with weak fairness of every call that    *)
(*               has begun.                                                *)
(*   SpecMove    MovementController.move_axis and step_axis of qdlmove,    *)
(*               called one at a time from the GUI thread.                 *)
(***************************************************************************)
EXTENDS Integers, Sequences, FiniteSets, TLC

\* ------------------------------------------------------------------ bounds
MaxPixels == 3      \* largest n_pixels of a line scan
MaxRows   == 3      \* largest n_pixels_2 (rows) of an image scan

\* ------------------------------------------------------- program constants
clock_rate           == 1000000   \* NidaqTimedRateCounter.__init__ default
min_position_microns == -40       \* axis device default min_position
max_position_microns == 40        \* axis device default max_position

\* ------------------------------------------------------------- fixed point
RECURSIVE Fact(_)
Fact(n) == IF n <= 1 THEN 1 ELSE n * Fact(n - 1)

MaxOf(a, b) == IF a >= b THEN a ELSE b

Scale == Fact(MaxOf(MaxPixels, MaxRows))

min_position == min_position_microns * Scale
max_position == max_position_microns * Scale

None == "None"

Threads == {1, 2}

AxisNames == {"x", "y", "z"}

\* ---------------------------------------------------------------- numpy
\* A grid that leaves out its end point (numpy's endpoint=False), to compare.
LinspaceOpen(start, stop, num, i) == start + (i * (stop - start)) \div num

\* np.linspace(start, stop, num): num points, both ends included; one point
\* (start) when num = 1.  Element i (0-based).
LinspaceAt(start, stop, num, i) ==
    IF num = 1 THEN start
    ELSE IF i = num - 1 THEN stop
    ELSE start + (i * (stop - start)) \div (num - 1)


\* ------------------------------------------------------------ axis device
\* _validate_value: a position outside [min_position, max_position] is
\* refused with a ValueError.
ValidPosition(position) ==
    position >= min_position /\ position <= max_position

\* go_to_position(position): validate, write the voltage, remember the write.
\* hwfail: the DAQ write raises.  lw is the per-axis last_write_value.
GoToPosition(lw, axis, position, hwfail) ==
    IF ~ValidPosition(position)
      THEN [last_write |-> lw, raised |-> "ValueError", wrote |-> FALSE]
    ELSE IF hwfail
      THEN [last_write |-> lw, raised |-> "DeviceError", wrote |-> TRUE]
    ELSE [last_write |-> [lw EXCEPT ![axis] = position],
          raised |-> None, wrote |-> TRUE]

\* The hardware events one go_to_position call adds to a trace.
MoveEvents(g, axis, position) ==
    IF g.wrote THEN << <<"move", axis, position, g.raised = None>> >> ELSE << >>

\* ---------------------------------------------------------------- counter
\* NidaqBatchedRateCounter.__init__ / NidaqTimedRateCounter.__init__
CounterInit ==
    [running |-> FALSE, read_lock |-> FALSE,
     sample_time |-> Scale,
     nspb |-> (Scale * clock_rate) \div Scale,     \* num_data_samples_per_batch
     clock_task |-> "none", counter_task |-> "none",
     task_nspb |-> 0]                              \* samp_quant_samp_per_chan

ReleaseSteps == <<"clock_stop", "clock_close", "counter_close">>

ReleaseStepSet == {ReleaseSteps[i] : i \in 1..Len(ReleaseSteps)}

\* One release step of stop(); fail: the nidaqmx call raises.
ApplyRelease(c, step, fail) ==
    IF fail THEN c
    ELSE IF step = "clock_stop"  THEN [c EXCEPT !.clock_task = "stopped"]
    ELSE IF step = "clock_close" THEN [c EXCEPT !.clock_task = "closed"]
    ELSE [c EXCEPT !.counter_task = "closed"]

\* A stop() whose release steps let their exception through, to compare.
StopPropagates(step) == FALSE

\* stop(): each release step sits in its own try/except Exception that only
\* logs, so an exception of a release step never leaves stop().
StopCatches(step) == TRUE

RECURSIVE Release(_, _, _, _)
Release(c, F, i, att) ==
    IF i > Len(ReleaseSteps)
      THEN [c |-> [c EXCEPT !.running = FALSE], raised |-> FALSE, attempted |-> att]
    ELSE LET step == ReleaseSteps[i]
             c1   == ApplyRelease(c, step, step \in F)
         IN  IF step \in F /\ ~StopCatches(step)
               THEN [c |-> c1, raised |-> TRUE, attempted |-> att \cup {step}]
               ELSE Release(c1, F, i + 1, att \cup {step})

\* A stop() that releases the tasks whether or not the counter is running, to
\* compare.
CounterStopAlways(c, F) == Release(c, F, 1, {})

\* stop() as one step (no read in flight: read_lock is false).
\* F: the release steps whose nidaqmx call raises.
CounterStop(c, F) ==
    IF c.running
      THEN Release(c, F, 1, {})
      ELSE [c |-> [c EXCEPT !.running = FALSE], raised |-> FALSE, attempted |-> {}]

\* start(): stop first when running, configure the DAQ (new tasks), start the
\* clock task, mark running.  fail: "none", "configure" (_configure_daq
\* raises) or "clock_start" (clock_task.start() raises).
ConfigureAndStart(c0, fail) ==
    IF fail = "configure"
      THEN [c |-> [c0 EXCEPT !.clock_task = "none", !.counter_task = "none"],
            raised |-> TRUE]
    ELSE LET c1 == [c0 EXCEPT !.clock_task = "created",
                              !.counter_task = "created",
                              !.task_nspb = c0.nspb]
         IN  IF fail = "clock_start"
               THEN [c |-> c1, raised |-> TRUE]
               ELSE [c |-> [c1 EXCEPT !.clock_task = "started", !.running = TRUE],
                     raised |-> FALSE]

CounterStart(c, F, fail) ==
    LET s  == IF c.running THEN CounterStop(c, F)
              ELSE [c |-> c, raised |-> FALSE, attempted |-> {}]
        k  == ConfigureAndStart(s.c, fail)
    IN  IF s.raised THEN [c |-> s.c, raised |-> TRUE, stopped |-> c.running]
        ELSE [c |-> k.c, raised |-> k.raised, stopped |-> c.running]

StartFails == {"none", "configure", "clock_start"}

\* configure_sample_time with the product rounded to the nearest integer
\* instead of truncated by int().
ConfigureRounded(c, sample_time) ==
    LET n == (2 * sample_time * clock_rate + Scale) \div (2 * Scale)
    IN  [c EXCEPT !.sample_time = sample_time,
                  !.nspb = n,
                  !.task_nspb = IF c.counter_task # "none" THEN n ELSE @]

\* NidaqTimedRateCounter.configure_sample_time(sample_time)
ConfigureSampleTime(c, sample_time) ==
    LET n == (sample_time * clock_rate) \div Scale    \* int(sample_time*clock_rate)
    IN  [c EXCEPT !.sample_time = sample_time,
                  !.nspb = n,
                  !.task_nspb = IF c.counter_task # "none" THEN n ELSE @]

\* What one batch read can do: deliver counts, or raise in the DAQ.
Counts == {0, 1}

ReadOutcomes ==
    [kind : {"ok"}, counts : Counts] \cup {[kind |-> "error", counts |-> 0]}

\* _read_samples: the finally clause ends in `return data_buffer, samples_read`,
\* which replaces an exception in flight: a failed read returns the zeroed
\* buffer and samples_read = 0.
ReadSamples(c, r) ==
    IF ~c.running THEN [counts |-> 0, samples_read |-> 0, raised |-> FALSE]
    ELSE IF r.kind = "error"
      THEN [counts |-> 0, samples_read |-> 0, raised |-> FALSE]
    ELSE [counts |-> r.counts, samples_read |-> c.nspb, raised |-> FALSE]

\* sample_batch_counts: not running -> the tuple (np.zeros(1), 0); else
\* int(np.sum(data_sample)).
SampleBatchCounts(c, r) ==
    IF ~c.running THEN [is_tuple |-> TRUE, value |-> 0, raised |-> FALSE]
    ELSE LET s == ReadSamples(c, r)
         IN  [is_tuple |-> FALSE, value |-> s.counts, raised |-> s.raised]


\* ------------------------------------------------------------------ state
VARIABLES
    busy,               \* ScanController.busy
    scanning,           \* ScanController.scanning
    stop_scan,          \* ScanController.stop_scan
    counter,            \* the counter_controller (record, see CounterInit)
    last_write,         \* last_write_value of the x, y and z axis controllers
    pc,                 \* per thread: where it is in the operation it runs
    args,               \* per thread: the arguments of that operation
    idx,                \* pixel index of the _scan_axis loop in progress
    row,                \* row index of the scan_image loop in progress
    out,                \* the output buffer of the _scan_axis in progress
    current_scan_index, \* ImageScanApplication.current_scan_index \
    data_z,             \* ImageScanApplication.data_z          | of the window of
    n_pixels,           \* ImageScanApplication.n_pixels (rows) /  the newest scan
    last,               \* history: the call that ended most recently
    trace,              \* history: hardware calls since the last accepted call
    stop_row,           \* history: the row in progress when a stop was requested
    scope,              \* the ScopeApplication and its ScopeController (record)
    scope_counter,      \* the counter_controller of the ScopeController (record)
    ple,                \* the PleScanner and its scan thread (record)
    image,              \* slow-axis range and positions of the image window (record)
    launcher,           \* axis limits and ranges of the LauncherApplication (record)
    mover               \* the MovementController and its positioners (record)

scan_vars == <<busy, scanning, stop_scan, counter, last_write, pc, args, idx,
               row, out, current_scan_index, data_z, n_pixels, last, trace,
               stop_row, scope, scope_counter, ple, image, launcher, mover>>

NoArgs == [op |-> "none"]

\* No call has ended since the last accepted call began.
NoCall == [call |-> NoArgs, result |-> None]

\* ScanController.__init__: all axes are moved to zero, the flags are false.
\* ScopeApplication.__init__ and ScopeController.__init__: no data, no time
\* measured, not running; readout_time 0 stands for its initial None.
\* since_reset is history: no start was accepted since the last reset.
ScopeInit ==
    [running |-> FALSE, readout_time |-> 0, data_x |-> << >>, data_y |-> << >>,
     total_measurement_time |-> 0, since_reset |-> TRUE]

\* PleScanner.__init__: nothing is configured (every scan parameter and every
\* grid is None), not running, no frame scanned, no output.  An attribute that
\* may be None is held as a sequence: << >> for None, <<v>> for the value v
\* (a grid, a sequence already, is never empty once set).  position is the
\* wavelength controller's last go_to; phase, k, stream, raw_up, raw_down and
\* raised are the scan thread: where it is in single_scan, the index of the
\* next sample, the counts its reader delivers, the raw counts read so far
\* and the exception that ended it.  id is number_scans_on_session when the
\* scanner was built; stopped is history: stop() was called on this scanner.
PleInit ==
    [params |-> << >>, pixel_voltages_up |-> << >>, pixel_voltages_down |-> << >>,
     sample_voltages_up |-> << >>, sample_voltages_down |-> << >>,
     pixel_time_up |-> << >>, pixel_time_down |-> << >>,
     sample_time_up |-> << >>, sample_time_down |-> << >>,
     running |-> FALSE, current_frame |-> 0, outputs |-> << >>,
     position |-> << >>, reads |-> 0,
     phase |-> "idle", k |-> 0, stream |-> None, raw_up |-> << >>,
     raw_down |-> << >>, raised |-> None, id |-> 0, stopped |-> FALSE]

\* No image window is open: its min_position_2, max_position_2 and data_y do
\* not exist (<< >>, as for the attributes of PleInit that are None).
ImageInit == [min_position_2 |-> << >>, max_position_2 |-> << >>, data_y |-> << >>]

\* LauncherApplication.__init__: the limits and ranges of the axes are None
\* until configure_from_yaml has run; no scan window was launched.
LauncherInit ==
    [min_position |-> << >>, max_position |-> << >>, max_range |-> << >>,
     number_scans |-> 0]

\* The positioners of the MovementController, by name.
Positioners == {"axis_1", "axis_2"}

\* MovementController.__init__: not busy.  last_write_value is the
\* positioner's: None (<< >>) until its first write.
MoverInit == [busy |-> FALSE, last_write_value |-> [p \in Positioners |-> << >>]]

ScanInit ==
    /\ busy = FALSE
    /\ scanning = FALSE
    /\ stop_scan = FALSE
    /\ counter = CounterInit
    /\ last_write = [a \in AxisNames |-> 0]
    /\ pc = [t \in Threads |-> "idle"]
    /\ args = [t \in Threads |-> NoArgs]
    /\ idx = 0
    /\ row = 0
    /\ out = << >>
    /\ current_scan_index = 0
    /\ data_z = << >>
    /\ n_pixels = 0
    /\ last = NoCall
    /\ trace = << >>
    /\ stop_row = 0
    /\ scope = ScopeInit
    /\ scope_counter = CounterInit
    /\ ple = PleInit
    /\ image = ImageInit
    /\ launcher = LauncherInit
    /\ mover = MoverInit

\* ------------------------------------------------------------------ inputs
BadAxis == "w"

\* set_axis requests: <<axis, position>>.
SetRequests == { <<"x", 10 * Scale>>, <<"x", max_position + Scale>>, <<BadAxis, 0>> }

LineAxes == {"x", BadAxis}

\* <<start, stop>> of a scan: one ascending inside the axis range, one
\* descending that leaves the axis range before its end.
ScanRanges == { <<0, 10 * Scale>>,
                <<min_position + 10 * Scale, min_position - 10 * Scale>> }

\* The slow axis of an image scan.
RowRanges == { <<0, 10 * Scale>> }

\* scan_time of the scans: one second.
ScanTime == Scale

ImageAxes == { <<"x", "y">>, <<BadAxis, "y">>, <<"x", BadAxis>> }

ImagePixels == {2}


\* --------------------------------------------------------- ScanController
\* A controller without the busy check, to compare.
NeverBlocked(b) == FALSE

\* The busy check that opens set_axis, scan_axis and scan_image.
Blocked(b) == b

\* A controller that does not reserve itself, to compare.
NoReserve == FALSE

\* `self.busy = True`, the statement that follows the busy check.
Reserve == TRUE

\* A scan_image that ignores the stop request, to compare.
StopIgnored(ss) == FALSE

\* `if self.stop_scan:` after the yield of scan_image.
StopRequested(ss) == ss

\* A set_axis that lets the exception of the move through, to compare.
SetAxisRaises == FALSE

\* set_axis wraps the move in try/except Exception and only logs a warning.
SetAxisCatches == TRUE

\* ScanController.stop(): scanning off, counter stopped, busy and stop_scan
\* cleared.  An exception leaving counter.stop() would skip the last two.
ControllerStop(c, F, b, ss) ==
    LET s == CounterStop(c, F)
    IN  [counter |-> s.c, raised |-> s.raised,
         busy |-> IF s.raised THEN b ELSE FALSE,
         stop_scan |-> IF s.raised THEN ss ELSE FALSE,
         scanning |-> FALSE]

\* set_axis(axis, position) as the caller sees it, from controller state
\* (b = busy, lw = last writes).
SetAxisCall(b, lw, axis, position, hwfail) ==
    IF Blocked(b)
      THEN [busy |-> b, last_write |-> lw, result |-> "RuntimeError", events |-> << >>]
    ELSE IF axis \notin AxisNames
      THEN [busy |-> Reserve, last_write |-> lw, result |-> "ValueError", events |-> << >>]
    ELSE LET g == GoToPosition(lw, axis, position, hwfail)
         IN  IF g.raised # None /\ ~SetAxisCatches
               THEN [busy |-> Reserve, last_write |-> g.last_write,
                     result |-> g.raised, events |-> MoveEvents(g, axis, position)]
               ELSE [busy |-> FALSE, last_write |-> g.last_write,
                     result |-> "returned", events |-> MoveEvents(g, axis, position)]

\* Nothing is kept of earlier calls: no record of a call, no hardware event,
\* and the scan window is new.
Fresh ==
    /\ last = NoCall
    /\ trace = << >>
    /\ out = << >>
    /\ n_pixels = 0
    /\ data_z = << >>
    /\ current_scan_index = 0
    /\ stop_row = 0

\* The record kept of a call that ended: what it was and how it ended.
Ended(t, a, how) == [call |-> a, result |-> how]

\* A call refused by the busy check: the caller gets the RuntimeError, the
\* operation in progress is not touched.
Refused(t, op) ==
    /\ last' = Ended(t, [op |-> op], "RuntimeError")
    /\ UNCHANGED <<busy, scanning, stop_scan, counter, last_write, pc, args, idx,
                   row, out, current_scan_index, data_z, n_pixels, trace, stop_row>>
    /\ UNCHANGED <<scope, scope_counter, ple, image, launcher, mover>>

\* A thread calls set_axis.
SetAxis(t) ==
    /\ pc[t] = "idle"
    /\ IF Blocked(busy)
         THEN Refused(t, "set_axis")
         ELSE Fresh /\ \E rq \in SetRequests, hwfail \in BOOLEAN :
                LET r == SetAxisCall(busy, last_write, rq[1], rq[2], hwfail)
                IN  /\ busy' = r.busy
                    /\ last_write' = r.last_write
                    /\ trace' = r.events
                    /\ last' = Ended(t, [op |-> "set_axis", axis |-> rq[1],
                                         position |-> rq[2]], r.result)
                    /\ out' = << >>
                    /\ stop_row' = 0
                    /\ UNCHANGED <<scanning, stop_scan, counter, pc, args, idx,
                                   row, current_scan_index, data_z, n_pixels>>
    /\ UNCHANGED <<scope, scope_counter, ple, image, launcher, mover>>

\* The hardware events of a counter start.
StartEvents(cs) ==
    (IF cs.stopped THEN << <<"stop">> >> ELSE << >>) \o << <<"start", ~cs.raised>> >>

\* scan_axis up to its loop: busy check, busy set, counter start, axis lookup,
\* then the head of _scan_axis (scanning flag, dwell configuration).
ScanAxisStart(t) ==
    /\ pc[t] = "idle"
    /\ IF Blocked(busy)
         THEN Refused(t, "scan_axis")
         ELSE Fresh /\ \E axis \in LineAxes, rng \in ScanRanges, n \in 1..MaxPixels,
                 fail \in StartFails :
                LET cs == CounterStart(counter, {}, fail)
                    a  == [op |-> "scan_axis", axis |-> axis, start |-> rng[1],
                           stop |-> rng[2], n |-> n, scan_time |-> ScanTime]
                IN  /\ busy' = Reserve
                    /\ out' = << >>
                    /\ stop_row' = 0
                    /\ idx' = 0
                    /\ current_scan_index' = 0
                    /\ data_z' = << >>
                    /\ n_pixels' = 0
                    /\ IF cs.raised \/ axis \notin AxisNames
                         THEN /\ counter' = cs.c
                              /\ trace' = StartEvents(cs)
                              /\ last' = Ended(t, a, IF cs.raised THEN "DeviceError"
                                                     ELSE "ValueError")
                              /\ UNCHANGED <<scanning, pc, args>>
                         ELSE /\ scanning' = TRUE
                              /\ counter' = ConfigureSampleTime(cs.c, ScanTime \div n)
                              /\ trace' = StartEvents(cs) \o
                                          << <<"configure", ScanTime \div n>> >>
                              /\ last' = NoCall
                              /\ args' = [args EXCEPT ![t] = a]
                              /\ pc' = [pc EXCEPT ![t] = "sa_move"]
                    /\ UNCHANGED <<stop_scan, last_write, row>>
    /\ UNCHANGED <<scope, scope_counter, ple, image, launcher, mover>>

\* The axis _scan_axis moves for thread t, and its pixel count.
ScanAxisOf(t) == IF args[t].op = "scan_axis" THEN args[t].axis ELSE args[t].axis_1
ScanStartOf(t) == IF args[t].op = "scan_axis" THEN args[t].start ELSE args[t].start_1
ScanStopOf(t) == IF args[t].op = "scan_axis" THEN args[t].stop ELSE args[t].stop_1
ScanPixelsOf(t) == IF args[t].op = "scan_axis" THEN args[t].n ELSE args[t].n_pixels_1

\* One iteration of the _scan_axis loop, first half: move to positions[index].
\* An exception of the move leaves _scan_axis and its caller as they are.
ScanMove(t) ==
    /\ pc[t] \in {"sa_move", "im_move"}
    /\ \E hwfail \in BOOLEAN :
         LET position == LinspaceAt(ScanStartOf(t), ScanStopOf(t), ScanPixelsOf(t), idx)
             g == GoToPosition(last_write, ScanAxisOf(t), position, hwfail)
         IN  /\ last_write' = g.last_write
             /\ trace' = trace \o MoveEvents(g, ScanAxisOf(t), position)
             /\ IF g.raised # None
                  THEN /\ pc' = [pc EXCEPT ![t] = "idle"]
                       /\ args' = [args EXCEPT ![t] = NoArgs]
                       /\ last' = Ended(t, args[t], g.raised)
                  ELSE /\ pc' = [pc EXCEPT ![t] =
                                   IF pc[t] = "sa_move" THEN "sa_read" ELSE "im_read"]
                       /\ UNCHANGED <<args, last>>
    /\ UNCHANGED <<busy, scanning, stop_scan, counter, idx, row, out,
                   current_scan_index, data_z, n_pixels, stop_row>>
    /\ UNCHANGED <<scope, scope_counter, ple, image, launcher, mover>>

\* Second half: one batch read stored at output[index]; after the last pixel
\* _scan_axis clears scanning and returns, and scan_axis calls stop().
ScanRead(t) ==
    /\ pc[t] \in {"sa_read", "im_read"}
    /\ \E r \in ReadOutcomes :
         LET s == SampleBatchCounts(counter, r)
             n == ScanPixelsOf(t)
             o == Append(out, s.value)
             k == ControllerStop(counter, {}, busy, stop_scan)
         IN  IF s.is_tuple
               THEN \* output[index] = (array, 0) raises ValueError
                    /\ pc' = [pc EXCEPT ![t] = "idle"]
                    /\ args' = [args EXCEPT ![t] = NoArgs]
                    /\ last' = Ended(t, args[t], "ValueError")
                    /\ UNCHANGED <<busy, scanning, stop_scan, counter, idx, out, trace>>
             ELSE IF idx + 1 < n
               THEN /\ out' = o
                    /\ idx' = idx + 1
                    /\ trace' = Append(trace, <<"read", s.value>>)
                    /\ pc' = [pc EXCEPT ![t] =
                                IF pc[t] = "sa_read" THEN "sa_move" ELSE "im_move"]
                    /\ UNCHANGED <<busy, scanning, stop_scan, counter, args, last>>
             ELSE IF pc[t] = "sa_read"
               THEN /\ out' = o
                    /\ trace' = trace \o << <<"read", s.value>>, <<"stop">> >>
                    /\ scanning' = k.scanning
                    /\ counter' = k.counter
                    /\ busy' = k.busy
                    /\ stop_scan' = k.stop_scan
                    /\ pc' = [pc EXCEPT ![t] = "idle"]
                    /\ args' = [args EXCEPT ![t] = NoArgs]
                    /\ last' = Ended(t, args[t],
                                     IF k.raised THEN "DeviceError" ELSE "returned")
                    /\ UNCHANGED idx
             ELSE /\ out' = o
                  /\ trace' = Append(trace, <<"read", s.value>>)
                  /\ scanning' = FALSE
                  /\ pc' = [pc EXCEPT ![t] = "im_yield"]
                  /\ UNCHANGED <<busy, stop_scan, counter, args, last, idx>>
    /\ UNCHANGED <<last_write, row, current_scan_index, data_z, n_pixels, stop_row>>
    /\ UNCHANGED <<scope, scope_counter, ple, image, launcher, mover>>

\* The consumer stores a row in counts per second: line / time_per_pixel.
RowRates(line, time, n) ==
    [k \in 1..Len(line) |-> (line[k] * Scale * Scale) \div (time \div n)]

\* The first pull of scan_image by the window's scan thread: the window resets
\* its cursor, then busy check, busy set, axis lookups, counter start.
ImageStart(t) ==
    /\ pc[t] = "idle"
    /\ IF Blocked(busy)
         THEN Refused(t, "scan_image")
         ELSE Fresh /\ \E ax \in ImageAxes, r1 \in ScanRanges, r2 \in RowRanges,
                 n1 \in ImagePixels, n2 \in 1..MaxRows, fail \in StartFails :
                LET cs == CounterStart(counter, {}, fail)
                    a  == [op |-> "scan_image", axis_1 |-> ax[1], start_1 |-> r1[1],
                           stop_1 |-> r1[2], n_pixels_1 |-> n1, axis_2 |-> ax[2],
                           start_2 |-> r2[1], stop_2 |-> r2[2], n_pixels_2 |-> n2,
                           scan_time |-> ScanTime]
                    bad == ax[1] \notin AxisNames \/ ax[2] \notin AxisNames
                IN  /\ busy' = Reserve
                    /\ current_scan_index' = 0
                    /\ data_z' = << >>
                    /\ n_pixels' = n2
                    /\ out' = << >>
                    /\ stop_row' = 0
                    /\ idx' = 0
                    /\ row' = 0
                    /\ IF bad
                         THEN /\ fail = "none"
                              /\ trace' = << >>
                              /\ last' = Ended(t, a, "ValueError")
                              /\ UNCHANGED <<counter, pc, args>>
                       ELSE IF cs.raised
                         THEN /\ counter' = cs.c
                              /\ trace' = StartEvents(cs)
                              /\ last' = Ended(t, a, "DeviceError")
                              /\ UNCHANGED <<pc, args>>
                       ELSE /\ counter' = cs.c
                            /\ trace' = StartEvents(cs)
                            /\ last' = NoCall
                            /\ args' = [args EXCEPT ![t] = a]
                            /\ pc' = [pc EXCEPT ![t] = "im_row"]
                    /\ UNCHANGED <<scanning, stop_scan, last_write>>
    /\ UNCHANGED <<scope, scope_counter, ple, image, launcher, mover>>

\* The head of a row with its settle delay left out.
RowHeadUnsettled(moved, dwell) == moved \o << <<"configure", dwell>> >>

\* The events of the head of a row after the move of axis_2: the settle delay
\* (time.sleep), then the dwell configuration of _scan_axis.
RowHeadEvents(moved, dwell) == moved \o << <<"settle">>, <<"configure", dwell>> >>

\* The head of one row: axis_2 moves to positions_2[row], the settle delay,
\* then _scan_axis sets scanning and configures the dwell.
ImageRow(t) ==
    /\ pc[t] = "im_row"
    /\ \E hwfail \in BOOLEAN :
         LET a == args[t]
             position == LinspaceAt(a.start_2, a.stop_2, a.n_pixels_2, row)
             g == GoToPosition(last_write, a.axis_2, position, hwfail)
             dwell == a.scan_time \div a.n_pixels_1
         IN  /\ last_write' = g.last_write
             /\ IF g.raised # None
                  THEN /\ trace' = trace \o MoveEvents(g, a.axis_2, position)
                       /\ pc' = [pc EXCEPT ![t] = "idle"]
                       /\ args' = [args EXCEPT ![t] = NoArgs]
                       /\ last' = Ended(t, a, g.raised)
                       /\ UNCHANGED <<scanning, counter, idx, out>>
                  ELSE /\ trace' = trace \o
                                  RowHeadEvents(MoveEvents(g, a.axis_2, position), dwell)
                       /\ scanning' = TRUE
                       /\ counter' = ConfigureSampleTime(counter, dwell)
                       /\ idx' = 0
                       /\ out' = << >>
                       /\ pc' = [pc EXCEPT ![t] = "im_move"]
                       /\ UNCHANGED <<args, last>>
    /\ UNCHANGED <<busy, stop_scan, row, current_scan_index, data_z, n_pixels,
                   stop_row>>
    /\ UNCHANGED <<scope, scope_counter, ple, image, launcher, mover>>

\* The consumer's store with a cursor that is not advanced.
StoreRowInPlace(dz, csi, rates) ==
    [data_z |-> [i \in 1..MaxOf(Len(dz), csi + 1) |->
                    IF i = csi + 1 THEN rates ELSE dz[i]],
     current_scan_index |-> csi]

\* `self.data_z[self.current_scan_index] = line / self.time_per_pixel` and
\* `self.current_scan_index += 1` on the rows dz stored so far (the rows of
\* the buffer past them still hold NaN) and the cursor csi.
StoreRow(dz, csi, rates) ==
    [data_z |-> [i \in 1..MaxOf(Len(dz), csi + 1) |->
                    IF i = csi + 1 THEN rates ELSE dz[i]],
     current_scan_index |-> csi + 1]

\* The consumer stores the delivered row (the "deliver" event, with the index
\* it is stored at), advances its cursor and pulls again;
\* the generator resumes after the yield: a stop request or the end of the
\* rows ends the sequence with stop(), else the next row begins.
ImageNext(t) ==
    /\ pc[t] = "im_yield"
    /\ LET w == StoreRow(data_z, current_scan_index,
                         RowRates(out, args[t].scan_time, args[t].n_pixels_1))
       IN  /\ data_z' = w.data_z
           /\ current_scan_index' = w.current_scan_index
    /\ IF StopRequested(stop_scan) \/ row + 1 = args[t].n_pixels_2
         THEN   LET k == ControllerStop(counter, {}, busy, stop_scan)
                IN  /\ scanning' = k.scanning
                    /\ counter' = k.counter
                    /\ busy' = k.busy
                    /\ stop_scan' = k.stop_scan
                    /\ trace' = trace \o << <<"deliver", current_scan_index>>,
                                              <<"stop">> >>
                    /\ IF k.raised
                         THEN /\ pc' = [pc EXCEPT ![t] = "idle"]
                              /\ args' = [args EXCEPT ![t] = NoArgs]
                              /\ last' = Ended(t, args[t], "DeviceError")
                         ELSE /\ pc' = [pc EXCEPT ![t] = "im_home"]
                              /\ UNCHANGED <<args, last>>
                    /\ UNCHANGED row
         ELSE /\ row' = row + 1
              /\ pc' = [pc EXCEPT ![t] = "im_row"]
              /\ trace' = Append(trace, <<"deliver", current_scan_index>>)
              /\ UNCHANGED <<busy, scanning, stop_scan, counter, args, last>>
    /\ UNCHANGED <<last_write, idx, out, n_pixels, stop_row>>
    /\ UNCHANGED <<scope, scope_counter, ple, image, launcher, mover>>

\* The centre of the scan range of an axis, where home_position returns to.
Centre(start, stop) == (start + stop) \div 2

\* home_position after the rows ended: set_axis on axis_1, then on axis_2.
\* An exception of either call ends the scan thread (it is caught and logged).
ImageHome(t) ==
    /\ pc[t] \in {"im_home", "im_home_2"}
    /\ \E hwfail \in BOOLEAN :
         LET a == args[t]
             first == pc[t] = "im_home"
             r == IF first
                    THEN SetAxisCall(busy, last_write, a.axis_1,
                                     Centre(a.start_1, a.stop_1), hwfail)
                    ELSE SetAxisCall(busy, last_write, a.axis_2,
                                     Centre(a.start_2, a.stop_2), hwfail)
         IN  /\ busy' = r.busy
             /\ last_write' = r.last_write
             /\ IF r.result = "RuntimeError"
                  THEN /\ hwfail = FALSE
                       /\ UNCHANGED <<trace, out, stop_row>>
                  ELSE /\ trace' = r.events
                       /\ out' = << >>
                       /\ stop_row' = 0
             /\ last' = Ended(t, [op |-> "home_position"], r.result)
             /\ IF first /\ r.result = "returned"
                  THEN /\ pc' = [pc EXCEPT ![t] = "im_home_2"]
                       /\ UNCHANGED args
                  ELSE /\ pc' = [pc EXCEPT ![t] = "idle"]
                       /\ args' = [args EXCEPT ![t] = NoArgs]
    /\ UNCHANGED <<scanning, stop_scan, counter, idx, row, current_scan_index,
                   data_z, n_pixels>>
    /\ UNCHANGED <<scope, scope_counter, ple, image, launcher, mover>>

\* Is some thread inside a row of scan_image (between two deliveries)?
ScanningRow == \E u \in Threads : pc[u] \in {"im_row", "im_move", "im_read"}

\* pause_scan of the image window (GUI thread).
PauseScan ==
    /\ n_pixels > 0
    /\ stop_scan # TRUE
    /\ current_scan_index # n_pixels
    /\ busy
    /\ stop_scan' = TRUE
    /\ stop_row' = IF ScanningRow THEN row + 1 ELSE 0
    /\ UNCHANGED <<busy, scanning, counter, last_write, pc, args, idx, row, out,
                   current_scan_index, data_z, n_pixels, last, trace>>
    /\ UNCHANGED <<scope, scope_counter, ple, image, launcher, mover>>

\* The launcher opens a new window for the next scan (start_image_scan builds a
\* new ImageScanApplication, whose cursor and data start empty) and the record
\* of the last call is dropped; a thread still inside home_position goes on.
\* Calls are made on a controller whose earlier records were dropped.
Forget ==
    /\ ~busy
    /\ ~Fresh
    /\ last' = NoCall
    /\ trace' = << >>
    /\ out' = << >>
    /\ n_pixels' = 0
    /\ data_z' = << >>
    /\ current_scan_index' = 0
    /\ stop_row' = 0
    /\ UNCHANGED <<busy, scanning, stop_scan, counter, last_write, pc, args, idx, row>>
    /\ UNCHANGED <<scope, scope_counter, ple, image, launcher, mover>>

vars == scan_vars

Init == ScanInit

ScanNext(t) ==
    \/ SetAxis(t)
    \/ ScanAxisStart(t)
    \/ ScanMove(t)
    \/ ScanRead(t)
    \/ ImageStart(t)
    \/ ImageRow(t)
    \/ ImageNext(t)
    \/ ImageHome(t)

Next == (\E t \in Threads : ScanNext(t)) \/ PauseScan \/ Forget

Spec == Init /\ [][Next]_vars

\* ------------------------------------------- the counter, statement by statement
\* start(), stop() and _read_samples of NidaqBatchedRateCounter run by threads
\* that share one counter; a step is one statement that reads or writes the
\* counter's attributes or its DAQ tasks.
scan_only == <<busy, scanning, stop_scan, last_write, idx, row, out,
               current_scan_index, data_z, n_pixels, trace, stop_row, scope,
               scope_counter, ple, image, launcher, mover>>

\* `return data_buffer, samples_read` in the finally clause of _read_samples.
FinallyReturns == TRUE

\* start(): `if self.running: self.stop()`, else straight to the configuration.
StartCall(t) ==
    /\ pc[t] = "idle"
    /\ pc' = [pc EXCEPT ![t] = IF counter.running THEN "st_wait" ELSE "start_cfg"]
    /\ args' = [args EXCEPT ![t] = [op |-> "start", was_running |-> counter.running,
                                    attempted |-> {}, failed |-> {}, i |-> 1]]
    /\ last' = NoCall
    /\ UNCHANGED counter
    /\ UNCHANGED scan_only

\* start(): _configure_daq(), clock_task.start(), running = True.
StartConfigure(t) ==
    /\ pc[t] = "start_cfg"
    /\ \E fail \in StartFails :
         LET k == ConfigureAndStart(counter, fail)
         IN  /\ counter' = k.c
             /\ last' = Ended(t, [op |-> "start"],
                              IF k.raised THEN "DeviceError" ELSE "returned")
    /\ pc' = [pc EXCEPT ![t] = "idle"]
    /\ args' = [args EXCEPT ![t] = NoArgs]
    /\ UNCHANGED scan_only

\* stop(): `if self.running:`.
StopCall(t) ==
    /\ pc[t] = "idle"
    /\ IF counter.running
         THEN /\ pc' = [pc EXCEPT ![t] = "st_wait"]
              /\ args' = [args EXCEPT ![t] = [op |-> "stop", was_running |-> TRUE,
                                              attempted |-> {}, failed |-> {}, i |-> 1]]
              /\ last' = NoCall
              /\ UNCHANGED counter
         ELSE /\ counter' = [counter EXCEPT !.running = FALSE]
              /\ last' = Ended(t, [op |-> "stop", was_running |-> FALSE,
                                   attempted |-> {}, failed |-> {}], "returned")
              /\ UNCHANGED <<pc, args>>
    /\ UNCHANGED scan_only

\* stop(): `while self.read_lock: time.sleep(0.1)` is left once read_lock is
\* seen false.
StopWait(t) ==
    /\ pc[t] = "st_wait"
    /\ ~counter.read_lock
    /\ pc' = [pc EXCEPT ![t] = "st_release"]
    /\ UNCHANGED <<counter, args, last>>
    /\ UNCHANGED scan_only

\* stop(): one of clock_task.stop(), clock_task.close(), counter_task.close(),
\* each in its try/except.
StopRelease(t) ==
    /\ pc[t] = "st_release"
    /\ \E fail \in BOOLEAN :
         LET a    == args[t]
             step == ReleaseSteps[a.i]
             a1   == [a EXCEPT !.attempted = @ \cup {step},
                               !.failed = IF fail THEN @ \cup {step} ELSE @]
         IN  /\ counter' = ApplyRelease(counter, step, fail)
             /\ IF fail /\ ~StopCatches(step)
                  THEN /\ pc' = [pc EXCEPT ![t] = "idle"]
                       /\ args' = [args EXCEPT ![t] = NoArgs]
                       /\ last' = Ended(t, [op |-> a.op, was_running |-> a.was_running,
                                            attempted |-> a1.attempted,
                                            failed |-> a1.failed], "DeviceError")
                  ELSE /\ pc' = [pc EXCEPT ![t] = IF a.i < Len(ReleaseSteps)
                                                   THEN "st_release" ELSE "st_running"]
                       /\ args' = [args EXCEPT ![t] =
                                     [a1 EXCEPT !.i = IF a.i < Len(ReleaseSteps)
                                                      THEN a.i + 1 ELSE a.i]]
                       /\ UNCHANGED last
    /\ UNCHANGED scan_only

\* stop(): `self.running = False`; a start() goes on to its configuration.
StopRunning(t) ==
    /\ pc[t] = "st_running"
    /\ counter' = [counter EXCEPT !.running = FALSE]
    /\ IF args[t].op = "start"
         THEN /\ pc' = [pc EXCEPT ![t] = "start_cfg"]
              /\ UNCHANGED <<args, last>>
         ELSE /\ pc' = [pc EXCEPT ![t] = "idle"]
              /\ args' = [args EXCEPT ![t] = NoArgs]
              /\ last' = Ended(t, [op |-> "stop", was_running |-> TRUE,
                                   attempted |-> args[t].attempted,
                                   failed |-> args[t].failed], "returned")
    /\ UNCHANGED scan_only

\* _read_samples: `if self.running is False: return zeros, 0`.
ReadCheck(t) ==
    /\ pc[t] = "idle"
    /\ IF ~counter.running
         THEN /\ last' = Ended(t, [op |-> "read", raised |-> FALSE, counts |-> 0,
                                   samples_read |-> 0], "returned")
              /\ UNCHANGED <<pc, args>>
         ELSE /\ pc' = [pc EXCEPT ![t] = "rd_lock"]
              /\ args' = [args EXCEPT ![t] = [op |-> "read", raised |-> FALSE,
                                              counts |-> 0, samples_read |-> 0]]
              /\ last' = NoCall
    /\ UNCHANGED counter
    /\ UNCHANGED scan_only

\* _read_samples: `self.read_lock = True`.
ReadLock(t) ==
    /\ pc[t] = "rd_lock"
    /\ counter' = [counter EXCEPT !.read_lock = TRUE]
    /\ pc' = [pc EXCEPT ![t] = "rd_start"]
    /\ UNCHANGED <<args, last>>
    /\ UNCHANGED scan_only

\* Can the counter task be used?  Not before it is created or once closed.
TaskUsable(c) == c.counter_task \notin {"none", "closed"}

\* _read_samples: counter_task.start(); it raises on a task that is closed.
ReadStart(t) ==
    /\ pc[t] = "rd_start"
    /\ \E fail \in BOOLEAN :
         LET raised == fail \/ ~TaskUsable(counter)
         IN  /\ (~TaskUsable(counter)) => fail
             /\ pc' = [pc EXCEPT ![t] = IF raised THEN "rd_finally" ELSE "rd_read"]
             /\ args' = [args EXCEPT ![t].raised = raised]
    /\ UNCHANGED <<counter, last>>
    /\ UNCHANGED scan_only

\* _read_samples: wait_until_done and the read of the buffer.
ReadRead(t) ==
    /\ pc[t] = "rd_read"
    /\ \E r \in ReadOutcomes :
         LET raised == r.kind = "error" \/ ~TaskUsable(counter)
         IN  /\ (~TaskUsable(counter)) => r.kind = "error"
             /\ args' = [args EXCEPT ![t].raised = raised,
                                     ![t].counts = IF raised THEN 0 ELSE r.counts,
                                     ![t].samples_read = IF raised THEN 0 ELSE counter.nspb]
    /\ pc' = [pc EXCEPT ![t] = "rd_finally"]
    /\ UNCHANGED <<counter, last>>
    /\ UNCHANGED scan_only

\* _read_samples, the finally clause: counter_task.stop() in a try/except,
\* `self.read_lock = False`, and the return that replaces an exception.
ReadFinally(t) ==
    /\ pc[t] = "rd_finally"
    /\ counter' = [counter EXCEPT !.read_lock = FALSE]
    /\ pc' = [pc EXCEPT ![t] = "idle"]
    /\ args' = [args EXCEPT ![t] = NoArgs]
    /\ last' = Ended(t, args[t], IF args[t].raised /\ ~FinallyReturns
                                   THEN "DeviceError" ELSE "returned")
    /\ UNCHANGED scan_only

CounterNext(t) ==
    \/ StartCall(t)
    \/ StartConfigure(t)
    \/ StopCall(t)
    \/ StopWait(t)
    \/ StopRelease(t)
    \/ StopRunning(t)
    \/ ReadCheck(t)
    \/ ReadLock(t)
    \/ ReadStart(t)
    \/ ReadRead(t)
    \/ ReadFinally(t)

NextCounter == \E t \in Threads : CounterNext(t)

SpecCounter == Init /\ [][NextCounter]_vars

\* ------------------------------------ the busy flag, statement by statement
\* set_axis and scan_axis run by threads that share one ScanController; the
\* busy check and the assignment that follows it are two statements.
\* The calls the threads make.
BusyCalls ==
    { [op |-> "set_axis", axis |-> "x", position |-> 10 * Scale],
      [op |-> "set_axis", axis |-> "y", position |-> 0 - 10 * Scale],
      [op |-> "scan_axis", axis |-> "x", start |-> 0, stop |-> 10 * Scale,
       n |-> 2, scan_time |-> ScanTime, index |-> 0, output |-> << >>] }

busy_only == <<idx, row, out, current_scan_index, data_z, n_pixels, trace, stop_row,
               scope, scope_counter, ple, image, launcher, mover>>

\* `if self.busy: raise RuntimeError(...)`.
CallCheck(t) ==
    /\ pc[t] = "idle"
    /\ \E a \in BusyCalls :
         IF Blocked(busy)
           THEN /\ last' = Ended(t, [op |-> a.op], "RuntimeError")
                /\ UNCHANGED <<pc, args>>
           ELSE /\ pc' = [pc EXCEPT ![t] = "reserve"]
                /\ args' = [args EXCEPT ![t] = a]
                /\ last' = NoCall
    /\ UNCHANGED <<busy, scanning, stop_scan, counter, last_write>>
    /\ UNCHANGED busy_only

\* `self.busy = True`.
CallReserve(t) ==
    /\ pc[t] = "reserve"
    /\ busy' = Reserve
    /\ pc' = [pc EXCEPT ![t] = IF args[t].op = "set_axis" THEN "go" ELSE "counter_start"]
    /\ UNCHANGED <<scanning, stop_scan, counter, last_write, args, last>>
    /\ UNCHANGED busy_only

\* set_axis: the move in its try/except.
SetAxisMove(t) ==
    /\ pc[t] = "go"
    /\ \E hwfail \in BOOLEAN :
         last_write' = GoToPosition(last_write, args[t].axis, args[t].position,
                                    hwfail).last_write
    /\ pc' = [pc EXCEPT ![t] = "release"]
    /\ UNCHANGED <<busy, scanning, stop_scan, counter, args, last>>
    /\ UNCHANGED busy_only

\* set_axis: `self.busy = False`.
SetAxisRelease(t) ==
    /\ pc[t] = "release"
    /\ busy' = FALSE
    /\ pc' = [pc EXCEPT ![t] = "idle"]
    /\ args' = [args EXCEPT ![t] = NoArgs]
    /\ last' = Ended(t, args[t], "returned")
    /\ UNCHANGED <<scanning, stop_scan, counter, last_write>>
    /\ UNCHANGED busy_only

\* scan_axis: counter_controller.start(), then the head of _scan_axis.
ScanCounterStart(t) ==
    /\ pc[t] = "counter_start"
    /\ counter' = ConfigureSampleTime(CounterStart(counter, {}, "none").c,
                                      args[t].scan_time \div args[t].n)
    /\ scanning' = TRUE
    /\ pc' = [pc EXCEPT ![t] = "pixel"]
    /\ UNCHANGED <<busy, stop_scan, last_write, args, last>>
    /\ UNCHANGED busy_only

\* _scan_axis: one pixel, the move, its read and the store of the result in
\* the buffer; storing the pair that a stopped counter returns raises.
ScanPixel(t) ==
    /\ pc[t] = "pixel"
    /\ \E r \in ReadOutcomes :
         LET a == args[t]
             position == LinspaceAt(a.start, a.stop, a.n, a.index)
             s == SampleBatchCounts(counter, r)
         IN  /\ last_write' = GoToPosition(last_write, a.axis, position, FALSE).last_write
             /\ IF s.is_tuple
                  THEN /\ pc' = [pc EXCEPT ![t] = "idle"]
                       /\ args' = [args EXCEPT ![t] = NoArgs]
                       /\ last' = Ended(t, a, "ValueError")
                  ELSE /\ args' = [args EXCEPT ![t].index = a.index + 1,
                                               ![t].output = Append(a.output, s.value)]
                       /\ pc' = [pc EXCEPT ![t] = IF a.index + 1 < a.n
                                                    THEN "pixel" ELSE "scan_stop"]
                       /\ UNCHANGED last
    /\ UNCHANGED <<busy, scanning, stop_scan, counter>>
    /\ UNCHANGED busy_only

\* scan_axis: `self.scanning = False` of _scan_axis, then stop().
ScanStop(t) ==
    /\ pc[t] = "scan_stop"
    /\ LET k == ControllerStop(counter, {}, busy, stop_scan)
       IN  /\ scanning' = k.scanning
           /\ counter' = k.counter
           /\ busy' = k.busy
           /\ stop_scan' = k.stop_scan
    /\ pc' = [pc EXCEPT ![t] = "idle"]
    /\ args' = [args EXCEPT ![t] = NoArgs]
    /\ last' = Ended(t, args[t], "returned")
    /\ UNCHANGED last_write
    /\ UNCHANGED busy_only

\* get_position with a busy check it does not have.
GetPositionBlocked(b, lw) ==
    IF b THEN [result |-> "RuntimeError", value |-> << >>]
    ELSE [result |-> "returned", value |-> <<lw["x"], lw["y"], lw["z"]>>]

\* get_position on a controller with busy flag b and last written values lw:
\* the last_write_value of the x, y and z axis controllers, no test of busy.
GetPositionCall(b, lw) ==
    [result |-> "returned", value |-> <<lw["x"], lw["y"], lw["z"]>>]

\* get_position, from the GUI thread, at any moment of the other calls.
GetPosition ==
    /\ LET r == GetPositionCall(busy, last_write)
       IN  last' = [call |-> [op |-> "get_position"], result |-> r.result,
                    value |-> r.value]
    /\ UNCHANGED <<busy, scanning, stop_scan, counter, last_write, pc, args>>
    /\ UNCHANGED busy_only

BusyNext(t) ==
    \/ CallCheck(t)
    \/ CallReserve(t)
    \/ SetAxisMove(t)
    \/ SetAxisRelease(t)
    \/ ScanCounterStart(t)
    \/ ScanPixel(t)
    \/ ScanStop(t)

NextBusy == (\E t \in Threads : BusyNext(t)) \/ GetPosition

SpecBusy == Init /\ [][NextBusy]_vars

\* ------------------------------------------- the sampling views, call by call
\* The counter's sampling operations, called one at a time: start(), stop(),
\* configure_sample_time, the four single-batch views and the four n-batch
\* views; an n-batch call is one step per batch read.

MaxBatches == 3

\* A numpy float64: a number, inf or nan.
Float(x) == [nan |-> FALSE, inf |-> FALSE, v |-> x]

NaN == [nan |-> TRUE, inf |-> FALSE, v |-> 0]

Inf == [nan |-> FALSE, inf |-> TRUE, v |-> 0]

\* float64 division: x/0 is nan for x = 0 and inf otherwise (a warning, no
\* exception); the quotient is held as quotient*Scale.
Divide(num, den) ==
    IF den = 0 THEN (IF num = 0 THEN NaN ELSE Inf)
    ELSE Float((num * Scale) \div den)

\* The explicit ZeroDivisionError of a Python int or float divisor does not
\* arise: the dividend is the float64 np.sum of the buffer.
DivideRaises(num, den) == FALSE

\* samples_read / clock_rate, in seconds (held as seconds*Scale).
SecondsOf(samples_read) == Divide(samples_read, clock_rate)

\* sum(counts) * clock_rate / samples_read, in counts per second.
RateOf(counts, samples_read) == Divide(counts * clock_rate, samples_read)

\* Parameters of sample_nbatches_raw(self, n_batches=1, sum_counts=True).
RawParams == <<"self", "n_batches", "sum_counts">>

\* Python's binding of a call: positional arguments fill the parameters from
\* the left; a keyword naming a parameter already filled, or a positional
\* argument too many, raises TypeError.
BindRaises(params, positional, keywords) ==
    \/ Len(positional) > Len(params)
    \/ \E i \in 1..Len(params) : i <= Len(positional) /\ params[i] \in keywords

\* The call the n-batch views make:
\* `self.sample_nbatches_raw(self, n_batches=n_batches, sum_counts=sum_counts)`;
\* the bound self and the explicit self are both positional.
ViewPositional == <<"self", "self">>

ViewKeywords == {"n_batches", "sum_counts"}

\* The call a caller of sample_nbatches_raw itself makes.
DirectPositional == <<"self">>

SampleViews == {"raw", "counts", "time", "rate"}

\* The n-batch operations: the four views of NidaqBatchedRateCounter and
\* sample_count_rate(sample_counts(n_batches)) of RateCounterBase.
NBatchViews == SampleViews \cup {"count_rate"}

\* Sample times offered to configure_sample_time: 1 s, 1/2 s and 2/3 s.
DwellTimes == {Scale, Scale \div 2, (2 * Scale) \div 3}

\* Column sums of the (n_batches, 2) array: np.sum(data, axis=0).
RECURSIVE ColumnSum(_, _)
ColumnSum(data, j) ==
    IF data = << >> THEN 0 ELSE data[1][j] + ColumnSum(Tail(data), j)

\* One row of sample_nbatches_raw from a read (data_sample, samples_read):
\* the counts are stored only when samples_read > 0.
BatchRow(s) == <<IF s.samples_read > 0 THEN s.counts ELSE 0, s.samples_read>>

\* What sample_nbatches_raw returns from its filled array.
RawResult(data, sum_counts) ==
    IF sum_counts THEN << <<ColumnSum(data, 1), ColumnSum(data, 2)>> >> ELSE data

\* RateCounterBase.sample_count_rate: clock_rate * counts / clock_samples of
\* the column sums, np.nan when the clock samples sum to 0.
SampleCountRate(data_counts) ==
    LET counts == ColumnSum(data_counts, 1)
        clock_samples == ColumnSum(data_counts, 2)
    IN  IF clock_samples > 0 THEN Divide(clock_rate * counts, clock_samples)
        ELSE NaN

\* What the n-batch view makes of the raw output: the rows (raw), output[:,0]
\* (counts), the rows with the second column divided by clock_rate (time),
\* output[:,0] * clock_rate / output[:,1] (rate).
ViewOf(view, output) ==
    IF view = "count_rate" THEN <<SampleCountRate(output)>> ELSE
    IF view = "raw"
      THEN [i \in 1..Len(output) |-> <<Float(output[i][1]), Float(output[i][2])>>]
    ELSE IF view = "counts"
      THEN [i \in 1..Len(output) |-> Float(output[i][1])]
    ELSE IF view = "time"
      THEN [i \in 1..Len(output) |-> <<Float(output[i][1]), SecondsOf(output[i][2])>>]
    ELSE [i \in 1..Len(output) |-> RateOf(output[i][1], output[i][2])]

\* Do the n-batch views test `self.running is False` first?  sample_nbatches_raw
\* and sample_nbatches_counts do not.
ChecksRunning(view) == view \in {"time", "rate"}

\* sample_batch_raw, _counts, _time, _rate: the pair (np.zeros(1), 0) when not
\* running; else one read and the view of it.
SampleBatch(c, view, r) ==
    LET s == ReadSamples(c, r)
        call == [op |-> "sample_batch", view |-> view, counts |-> s.counts,
                 samples_read |-> s.samples_read]
    IN  IF ~c.running
          THEN [call |-> [call EXCEPT !.counts = 0, !.samples_read = 0],
                is_tuple |-> TRUE, raised |-> FALSE, value |-> << >>]
        ELSE IF view = "raw"
          THEN [call |-> call, is_tuple |-> FALSE, raised |-> FALSE,
                value |-> <<Float(s.counts), Float(s.samples_read)>>]
        ELSE IF view = "counts"
          THEN [call |-> call, is_tuple |-> FALSE, raised |-> FALSE,
                value |-> <<Float(s.counts)>>]
        ELSE IF view = "time"
          THEN [call |-> call, is_tuple |-> FALSE, raised |-> FALSE,
                value |-> <<Float(s.counts), SecondsOf(s.samples_read)>>]
        ELSE [call |-> call, is_tuple |-> FALSE,
              raised |-> DivideRaises(s.counts * clock_rate, s.samples_read),
              value |-> <<RateOf(s.counts, s.samples_read)>>]

\* The calls of this specification come one at a time.
Serial(t) == pc[t] = "idle" /\ \A u \in Threads \ {t} : pc[u] = "idle"

\* start() on a stopped counter.
SampleStart(t) ==
    /\ Serial(t)
    /\ ~counter.running
    /\ counter' = CounterStart(counter, {}, "none").c
    /\ last' = Ended(t, [op |-> "start"], "returned")
    /\ UNCHANGED <<pc, args>>
    /\ UNCHANGED scan_only

\* stop() on a running counter.
SampleStop(t) ==
    /\ Serial(t)
    /\ counter.running
    /\ counter' = CounterStop(counter, {}).c
    /\ last' = Ended(t, [op |-> "stop"], "returned")
    /\ UNCHANGED <<pc, args>>
    /\ UNCHANGED scan_only

\* configure_sample_time(sample_time).
SampleConfigure(t) ==
    /\ Serial(t)
    /\ \E dwell \in DwellTimes :
         /\ counter' = ConfigureSampleTime(counter, dwell)
         /\ last' = Ended(t, [op |-> "configure_sample_time", sample_time |-> dwell,
                              had_task |-> counter.counter_task # "none"], "returned")
    /\ UNCHANGED <<pc, args>>
    /\ UNCHANGED scan_only

\* One of sample_batch_raw, sample_batch_counts, sample_batch_time,
\* sample_batch_rate.
BatchCall(t) ==
    /\ Serial(t)
    /\ \E view \in SampleViews, r \in ReadOutcomes :
         LET b == SampleBatch(counter, view, r)
         IN  last' = Ended(t, [b.call EXCEPT !.op = "sample_batch"] @@
                              [is_tuple |-> b.is_tuple, value |-> b.value],
                           IF b.raised THEN "ZeroDivisionError" ELSE "returned")
    /\ UNCHANGED <<counter, pc, args>>
    /\ UNCHANGED scan_only

\* One of sample_nbatches_raw, _counts, _time, _rate, up to the first read: the
\* running test of the time and rate views, then the binding of the call of
\* sample_nbatches_raw.
NBatchesCall(t) ==
    /\ Serial(t)
    /\ \E view \in NBatchViews, n \in 1..MaxBatches, sum_counts \in BOOLEAN :
         LET a == [op |-> "sample_nbatches", view |-> view, n_batches |-> n,
                   sum_counts |-> sum_counts, reads |-> << >>, data |-> << >>,
                   is_tuple |-> FALSE, value |-> << >>]
             positional == IF view \in {"raw", "count_rate"}
                             THEN DirectPositional ELSE ViewPositional
         IN  IF ChecksRunning(view) /\ ~counter.running
               THEN /\ last' = Ended(t, [a EXCEPT !.is_tuple = TRUE], "returned")
                    /\ UNCHANGED <<pc, args>>
             ELSE IF BindRaises(RawParams, positional, ViewKeywords)
               THEN /\ last' = Ended(t, a, "TypeError")
                    /\ UNCHANGED <<pc, args>>
             ELSE /\ pc' = [pc EXCEPT ![t] = "nb_read"]
                  /\ args' = [args EXCEPT ![t] = a]
                  /\ last' = NoCall
    /\ UNCHANGED counter
    /\ UNCHANGED scan_only

\* sample_nbatches_raw: one pass of the loop, a read and its row; after the
\* last pass the return and the view of it.
NBatchesRead(t) ==
    /\ pc[t] = "nb_read"
    /\ \E r \in ReadOutcomes :
         LET a == args[t]
             s == ReadSamples(counter, r)
             reads == Append(a.reads, <<s.counts, s.samples_read>>)
             data == Append(a.data, BatchRow(s))
         IN  IF Len(data) < a.n_batches
               THEN /\ args' = [args EXCEPT ![t].reads = reads, ![t].data = data]
                    /\ UNCHANGED <<pc, last>>
               ELSE /\ pc' = [pc EXCEPT ![t] = "idle"]
                    /\ args' = [args EXCEPT ![t] = NoArgs]
                    /\ last' = Ended(t, [a EXCEPT !.reads = reads, !.data = data,
                                           !.value = ViewOf(a.view,
                                                      RawResult(data, a.sum_counts))],
                                     "returned")
    /\ UNCHANGED counter
    /\ UNCHANGED scan_only

SampleNext(t) ==
    \/ SampleStart(t)
    \/ SampleStop(t)
    \/ SampleConfigure(t)
    \/ BatchCall(t)
    \/ NBatchesCall(t)
    \/ NBatchesRead(t)

NextSample == \E t \in Threads : SampleNext(t)

SpecSample == Init /\ [][NextSample]_vars

\* ------------------------------------------- the scope, command by command
\* The ScopeApplication: the three commands of the GUI thread
\* (start_continuous_sampling, stop_sampling, reset_data; a handler is one
\* step) and the sampling workers it launches, each running
\* sample_continuous_thread_function over the generator
\* ScopeController.read_counts_continuous.  `counter` is the counter of the
\* ScopeController.  Time is counted in reads: a worker's clock advances by one
\* with each batch it reads.

\* The safety cap on the accumulated samples (1000000 in the program).
max_allowed_samples == 1

\* The reads one worker makes are followed up to this number.
MaxReads == 2

\* daq_parameters: the sample time and whether rates are asked for.
ScopeSampleTime == Scale \div 2

ScopeGetRate == TRUE

\* read_counts_continuous: `scale = 1/sample_time` for rates, else 1 (held as
\* scale*Scale).
ScopeScale(sample_time, get_rate) ==
    IF get_rate THEN (Scale * Scale) \div sample_time ELSE Scale

\* The sample a read yields: sample_batch_counts() / scale (held as value*Scale).
ScopeSample(counts, scale) == (counts * Scale * Scale) \div scale

\* What a batch read of the scope's counter returns: one count.
ScopeReads == {r \in ReadOutcomes : r.kind = "ok" /\ r.counts = 1}

scope_only == <<busy, scanning, stop_scan, counter, last_write, idx, row, out,
                current_scan_index, data_z, n_pixels, trace, stop_row, ple, image,
                launcher, mover>>

\* Is thread t a sampling worker that has been launched and has not ended?
Working(t) == pc[t] \in {"sc_begin", "sc_loop", "sc_read", "sc_exit"}

\* History: the workers inside the producing loop are told that a stop was
\* requested.
MarkStop(a) ==
    [t \in Threads |-> IF pc[t] \in {"sc_loop", "sc_read"}
                         THEN [a[t] EXCEPT !.stop_requested = TRUE] ELSE a[t]]

\* start_continuous_sampling: nothing when the controller says running; else
\* the worker thread is created and started.  It is offered while the buffer
\* is within the cap and a thread is free.
StartContinuousSampling ==
    /\ Len(scope.data_x) <= max_allowed_samples
    /\ IF scope.running
         THEN UNCHANGED <<pc, args, scope>>
         ELSE \E t \in Threads :
                /\ pc[t] = "idle"
                /\ \A u \in Threads : pc[u] = "idle" => t <= u
                /\ pc' = [pc EXCEPT ![t] = "sc_begin"]
                /\ args' = [args EXCEPT ![t] =
                              [op |-> "sample_continuous",
                               sample_time |-> ScopeSampleTime,
                               get_rate |-> ScopeGetRate,
                               reads |-> 0, stop_requested |-> FALSE,
                               since_stop |-> 0]]
                /\ scope' = [scope EXCEPT !.since_reset = FALSE]
    /\ UNCHANGED <<scope_counter, last>>
    /\ UNCHANGED scope_only

\* stop_sampling on the application state sc: nothing when not running; else
\* the running flag is cleared.
StopSamplingCall(sc) ==
    IF ~sc.running THEN sc ELSE [sc EXCEPT !.running = FALSE]

\* stop_sampling, from the GUI thread.
StopSampling ==
    /\ scope' = StopSamplingCall(scope)
    /\ args' = IF scope.running THEN MarkStop(args) ELSE args
    /\ UNCHANGED <<scope_counter, pc, last>>
    /\ UNCHANGED scope_only

\* reset_data: nothing when running; else the data and the total time are
\* cleared.
ResetData ==
    /\ scope' = IF scope.running THEN scope
                ELSE [scope EXCEPT !.data_x = << >>, !.data_y = << >>,
                                   !.total_measurement_time = 0,
                                   !.since_reset = TRUE]
    /\ UNCHANGED <<scope_counter, pc, args, last>>
    /\ UNCHANGED scope_only

\* read_counts_continuous up to its loop: running = True,
\* configure_sample_time, counter_controller.start().
ScopeBegin(t) ==
    /\ pc[t] = "sc_begin"
    /\ scope' = [scope EXCEPT !.running = TRUE]
    /\ scope_counter' = CounterStart(ConfigureSampleTime(scope_counter, args[t].sample_time),
                               {}, "none").c
    /\ pc' = [pc EXCEPT ![t] = "sc_loop"]
    /\ UNCHANGED <<args, last>>
    /\ UNCHANGED scope_only

\* `while self.running:` a read is begun, or the loop is left.
ScopeLoop(t) ==
    /\ pc[t] = "sc_loop"
    /\ scope.running => args[t].reads < MaxReads
    /\ pc' = [pc EXCEPT ![t] = IF scope.running THEN "sc_read" ELSE "sc_exit"]
    /\ UNCHANGED <<scope_counter, args, last, scope>>
    /\ UNCHANGED scope_only

\* The `if len(self.data_x) > self.max_allowed_samples` of the worker.
OverCap(n) == n > max_allowed_samples

\* The read returns and its sample is yielded; the worker appends the time and
\* the sample and calls stop_sampling() when the buffer is over the cap.  The
\* pair a stopped counter returns cannot be divided: TypeError ends the thread.
ScopeRead(t) ==
    /\ pc[t] = "sc_read"
    /\ \E r \in ScopeReads :
         LET a == args[t]
             s == SampleBatchCounts(scope_counter, r)
             y == ScopeSample(s.value, ScopeScale(a.sample_time, a.get_rate))
             a1 == [args EXCEPT ![t].reads = a.reads + 1,
                                ![t].since_stop = IF a.stop_requested
                                                    THEN a.since_stop + 1 ELSE 0]
             x == Append(scope.data_x, a.reads + 1)
             stops == OverCap(Len(x)) /\ scope.running
         IN  IF s.is_tuple
               THEN /\ pc' = [pc EXCEPT ![t] = "idle"]
                    /\ args' = [args EXCEPT ![t] = NoArgs]
                    /\ UNCHANGED scope
               ELSE /\ pc' = [pc EXCEPT ![t] = "sc_loop"]
                    /\ scope' = LET sc == [scope EXCEPT !.data_x = x,
                                                       !.data_y = Append(@, y)]
                                IN  IF OverCap(Len(x)) THEN StopSamplingCall(sc)
                                    ELSE sc
                    /\ args' = IF stops THEN MarkStop(a1) ELSE a1
    /\ UNCHANGED <<scope_counter, last>>
    /\ UNCHANGED scope_only

\* After the loop: readout_time, counter_controller.stop(), and the worker's
\* `self.total_measurement_time += readout_time`.
ScopeExit(t) ==
    /\ pc[t] = "sc_exit"
    /\ scope' = [scope EXCEPT !.readout_time = args[t].reads,
                              !.total_measurement_time = @ + args[t].reads]
    /\ scope_counter' = CounterStop(scope_counter, {}).c
    /\ pc' = [pc EXCEPT ![t] = "idle"]
    /\ args' = [args EXCEPT ![t] = NoArgs]
    /\ UNCHANGED last
    /\ UNCHANGED scope_only

ScopeNext(t) ==
    \/ ScopeBegin(t)
    \/ ScopeLoop(t)
    \/ ScopeRead(t)
    \/ ScopeExit(t)

NextScope ==
    \/ StartContinuousSampling
    \/ StopSampling
    \/ ResetData
    \/ \E t \in Threads : ScopeNext(t)

SpecScope == Init /\ [][NextScope]_vars

\* ------------------------------------------------- the PLE scanner (SpecPle)
\* PleScanner.configure_scan and single_scan compute with Python and numpy
\* floats.  A float here is a record [m, e] of value m * 2^e whose mantissa m
\* has exactly MantissaBits significant bits (or is 0, with e = 0), and every
\* operation rounds its exact result to the nearest such number, ties to the
\* even mantissa, as IEEE 754 does.  The program's float64 carries 53
\* significant bits; the exponent is not bounded here, as no value of a sweep
\* comes near the limits of float64's exponent.
MaxPlePixels    == 7    \* largest n_pixels_up
MaxPleSubpixels == 2    \* largest n_subpixels

MantissaBits == 10

Zero == [m |-> 0, e |-> 0]

\* Round half to even of the rational num / den (num >= 0, den > 0).
RoundHalfEven(num, den) ==
    LET q == num \div den
        r == num % den
    IN  IF 2 * r > den \/ (2 * r = den /\ q % 2 = 1) THEN q + 1 ELSE q

\* The float nearest to (num / den) * 2^e, for num >= 0 and den > 0.
RECURSIVE RoundTo(_, _, _)
RoundTo(num, den, e) ==
    IF num = 0 THEN Zero
    ELSE IF num >= den * 2^MantissaBits THEN RoundTo(num, 2 * den, e + 1)
    ELSE IF num < den * 2^(MantissaBits - 1) THEN RoundTo(2 * num, den, e - 1)
    ELSE LET m == RoundHalfEven(num, den)
         IN  IF m = 2^MantissaBits
             THEN [m |-> 2^(MantissaBits - 1), e |-> e + 1]
             ELSE [m |-> m, e |-> e]

\* The float nearest to (num / den) * 2^e, for any sign of num and den # 0.
Fl(num, den, e) ==
    LET n == IF num < 0 THEN 0 - num ELSE num
        d == IF den < 0 THEN 0 - den ELSE den
        r == RoundTo(n, d, e)
    IN  IF (num < 0) # (den < 0) THEN [m |-> 0 - r.m, e |-> r.e] ELSE r

\* float(i) of an integer i.
FromInt(i) == Fl(i, 1, 0)

\* The smaller exponent of two floats, and a mantissa moved to an exponent.
LowExp(a, b) == IF a.m = 0 THEN b.e ELSE IF b.m = 0 THEN a.e
                ELSE IF a.e <= b.e THEN a.e ELSE b.e
Shift(a, e) == IF a.m = 0 THEN 0 ELSE a.m * 2^(a.e - e)

FAdd(a, b) == Fl(Shift(a, LowExp(a, b)) + Shift(b, LowExp(a, b)), 1, LowExp(a, b))
FSub(a, b) == Fl(Shift(a, LowExp(a, b)) - Shift(b, LowExp(a, b)), 1, LowExp(a, b))
\* a / b for floats a and b # 0; a / n and i * a for a float a and an int.
FDiv(a, b) == Fl(a.m, b.m, a.e - b.e)
FDivInt(a, n) == Fl(a.m, n, a.e)
FMulInt(i, a) == Fl(i * a.m, 1, a.e)

FLess(a, b) == Shift(a, LowExp(a, b)) < Shift(b, LowExp(a, b))

\* math.ceil of a float.
Ceil(a) == IF a.e >= 0 THEN a.m * 2^a.e
           ELSE 0 - ((0 - a.m) \div 2^(0 - a.e))

\* numpy.arange(start, stop, step) of floats: ceil((stop - start) / step)
\* elements; the first is start, the second start + step, and element i is
\* start + i * delta, where delta is the second minus the first.
ArangeLength(start, stop, step) ==
    LET len == Ceil(FDiv(FSub(stop, start), step))
    IN  IF len <= 0 THEN 0 ELSE len

Arange(start, stop, step) ==
    LET next == FAdd(start, step)
        delta == FSub(next, start)
    IN  [i \in 1..ArangeLength(start, stop, step) |->
            IF i = 1 THEN start
            ELSE IF i = 2 THEN next
            ELSE FAdd(start, FMulInt(i - 1, delta))]

\* The arguments of configure_scan.  start_scan passes float(...) of the
\* voltage and time entries and int(...) of the count entries; a direct caller
\* may pass a count that is not an int, here the float 2.0 for n_pixels_up.
\* The ranges <<min, max>>: two sweep ranges, a reversed and an empty one.
IntArg(n) == [type |-> "int", v |-> n]

ConfigureArgs ==
    LET FloatArg  == [type |-> "float", v |-> 2]
        PleRanges == { <<Zero, FromInt(1)>>, <<Zero, Fl(5, 4, 0)>>,
                       <<FromInt(1), Zero>>, <<FromInt(1), FromInt(1)>> }
        PleTimes  == {Zero, FromInt(1)}
    IN  { [min |-> r[1], max |-> r[2], n_pixels_up |-> u, n_pixels_down |-> d,
           n_subpixels |-> s, time_up |-> tu, time_down |-> td,
           n_scans |-> IntArg(1), time_repump |-> Zero] :
          r \in PleRanges,
          u \in {IntArg(n) : n \in 0..MaxPlePixels} \cup {FloatArg},
          d \in {IntArg(0), IntArg(1), IntArg(2)},
          s \in {IntArg(n) : n \in 0..MaxPleSubpixels},
          tu \in PleTimes, td \in PleTimes }

\* wavelength_controller.check_allowed_limits(v): raises ValueError when v is
\* outside the controller's voltage limits, here -3 V and 5 V.
CheckAllowedLimitsRaises(v) == FLess(v, FromInt(0 - 3)) \/ FLess(FromInt(5), v)

\* `type(n) is not int or n < 1`.
NotIntOrBelowOne(x) == x.type # "int" \/ x.v < 1

\* A mutant's validation: the sweep times are not tested.
ConfigureRaisesNoTime(p) ==
    \/ ~FLess(p.min, p.max)
    \/ CheckAllowedLimitsRaises(p.min) \/ CheckAllowedLimitsRaises(p.max)
    \/ NotIntOrBelowOne(p.n_pixels_up)
    \/ NotIntOrBelowOne(p.n_pixels_down)
    \/ NotIntOrBelowOne(p.n_subpixels)
    \/ NotIntOrBelowOne(p.n_scans)
    \/ FLess(p.time_repump, Zero)

\* The validation of configure_scan: does it raise ValueError?
ConfigureRaises(p) ==
    \/ ~FLess(p.min, p.max)
    \/ CheckAllowedLimitsRaises(p.min) \/ CheckAllowedLimitsRaises(p.max)
    \/ NotIntOrBelowOne(p.n_pixels_up)
    \/ NotIntOrBelowOne(p.n_pixels_down)
    \/ NotIntOrBelowOne(p.n_subpixels)
    \/ ~FLess(Zero, p.time_up)
    \/ ~FLess(Zero, p.time_down)
    \/ NotIntOrBelowOne(p.n_scans)
    \/ FLess(p.time_repump, Zero)

\* The assignments of configure_scan once the arguments are valid: the
\* parameters, the step sizes, the four grids and the four dwell times.
Configured(sc, p) ==
    LET n_up   == p.n_pixels_up.v
        n_down == p.n_pixels_down.v
        n_sub  == p.n_subpixels.v
        pixel_step_size_up    == FDivInt(FSub(p.max, p.min), n_up)
        pixel_step_size_down  == FDivInt(FSub(p.min, p.max), n_down)
        sample_step_size_up   == FDivInt(FSub(p.max, p.min), n_up * n_sub)
        sample_step_size_down == FDivInt(FSub(p.min, p.max), n_down * n_sub)
    IN  [sc EXCEPT
            !.params = <<p>>,
            !.pixel_voltages_up    = Arange(p.min, p.max, pixel_step_size_up),
            !.pixel_voltages_down  = Arange(p.max, p.min, pixel_step_size_down),
            !.sample_voltages_up   = Arange(p.min, p.max, sample_step_size_up),
            !.sample_voltages_down = Arange(p.max, p.min, sample_step_size_down),
            !.pixel_time_up    = <<FDivInt(p.time_up, n_up)>>,
            !.pixel_time_down  = <<FDivInt(p.time_down, n_down)>>,
            !.sample_time_up   = <<FDivInt(p.time_up, n_up * n_sub)>>,
            !.sample_time_down = <<FDivInt(p.time_down, n_down * n_sub)>>]

ConfigureScanCall(sc, p) == IF ConfigureRaises(p) THEN sc ELSE Configured(sc, p)

ple_only == <<busy, scanning, stop_scan, counter, last_write, pc, args, idx, row,
              out, current_scan_index, data_z, n_pixels, trace, stop_row, scope,
              scope_counter, image, launcher, mover>>

\* configure_scan(...) on a scanner that is not scanning.
ConfigureScan ==
    /\ ple.phase = "idle"
    /\ \E p \in ConfigureArgs :
        /\ ple' = ConfigureScanCall(ple, p)
        /\ last' = [call |-> [op |-> "configure_scan"],
                    result |-> IF ConfigureRaises(p) THEN "ValueError" ELSE "returned"]
    /\ UNCHANGED ple_only

\* The counts the reader delivers at its read number k (from 0): always one,
\* or one more at every read, so that every sample of a scan is told apart.
PleStreams == {"ones", "ramp"}
ReaderCounts(stream, k) == IF stream = "ones" THEN 1 ELSE k + 1

\* np.array(raw).squeeze() of the list of per-sample results [[counts, N]]:
\* its shape is (len, 1, 2), squeezed to (len, 2), and to (2,) when len is 1;
\* `[:,0]` on the one-dimensional array raises IndexError.
ColumnRaises(raw) == Len(raw) = 1

\* raw_counts.reshape(n_pixels, n_subpixels) raises ValueError unless the
\* array has n_pixels * n_subpixels elements.
ReshapeRaises(raw, n, sub) == Len(raw) # n * sub

SweepRaises(raw, n, sub) ==
    IF ColumnRaises(raw) THEN "IndexError"
    ELSE IF ReshapeRaises(raw, n, sub) THEN "ValueError"
    ELSE None

RECURSIVE SumRange(_, _, _)
SumRange(raw, lo, hi) == IF lo > hi THEN 0 ELSE raw[lo] + SumRange(raw, lo + 1, hi)

\* np.sum(raw_counts.reshape(n, sub), axis=1) / pixel_time.
CountsPerSecond(raw, n, sub, pixel_time) ==
    [j \in 1..n |-> FDiv(FromInt(SumRange(raw, (j - 1) * sub + 1, j * sub)), pixel_time)]

\* The processing at the end of single_scan: the up-sweep, then the down-sweep,
\* then the concatenation.
ProcessScan(sc) ==
    LET n_up   == sc.params[1].n_pixels_up.v
        n_down == sc.params[1].n_pixels_down.v
        n_sub  == sc.params[1].n_subpixels.v
        up     == SweepRaises(sc.raw_up, n_up, n_sub)
        down   == SweepRaises(sc.raw_down, n_down, n_sub)
    IN  IF up # None THEN [raised |-> up, output |-> None]
        ELSE IF down # None THEN [raised |-> down, output |-> None]
        ELSE [raised |-> None,
              output |-> CountsPerSecond(sc.raw_up, n_up, n_sub, sc.pixel_time_up[1])
                         \o CountsPerSecond(sc.raw_down, n_down, n_sub, sc.pixel_time_down[1])]

InScan == [call |-> [op |-> "single_scan"], result |-> None]

\* start_scan launches the scan thread on a configured scanner;
\* scan_thread_function begins with start(): running = True.
PleStart ==
    /\ ple.phase = "idle"
    /\ ple.params # << >>
    /\ \E s \in PleStreams :
        ple' = [ple EXCEPT !.running = TRUE, !.stream = s, !.phase = "begin"]
    /\ last' = InScan
    /\ UNCHANGED ple_only

\* `while still_scanning()`: another frame begins with go_to(min); after the
\* last frame running becomes False, the loop ends and stop() is called.
PleBegin ==
    /\ ple.phase = "begin"
    /\ ple' = IF ple.running /\ ple.current_frame < ple.params[1].n_scans.v
              THEN [ple EXCEPT !.position = <<ple.params[1].min>>, !.raw_up = << >>,
                               !.raw_down = << >>, !.k = 0, !.phase = "up"]
              ELSE [ple EXCEPT !.running = FALSE, !.phase = "done"]
    /\ last' = InScan
    /\ UNCHANGED ple_only

\* One pass of `for voltage in self.sample_voltages_up`: go_to, one read.
PleUp ==
    /\ ple.phase = "up"
    /\ ple.k < Len(ple.sample_voltages_up)
    /\ ple' = [ple EXCEPT
                !.position = <<ple.sample_voltages_up[ple.k + 1]>>,
                !.raw_up = Append(@, ReaderCounts(ple.stream, ple.reads)),
                !.reads = @ + 1,
                !.k = IF ple.k + 1 = Len(ple.sample_voltages_up) THEN 0 ELSE ple.k + 1,
                !.phase = IF ple.k + 1 = Len(ple.sample_voltages_up) THEN "down" ELSE "up"]
    /\ last' = InScan
    /\ UNCHANGED ple_only

\* One pass of `for voltage in self.sample_voltages_down`.
PleDown ==
    /\ ple.phase = "down"
    /\ ple.k < Len(ple.sample_voltages_down)
    /\ ple' = [ple EXCEPT
                !.position = <<ple.sample_voltages_down[ple.k + 1]>>,
                !.raw_down = Append(@, ReaderCounts(ple.stream, ple.reads)),
                !.reads = @ + 1,
                !.k = IF ple.k + 1 = Len(ple.sample_voltages_down) THEN 0 ELSE ple.k + 1,
                !.phase = IF ple.k + 1 = Len(ple.sample_voltages_down)
                          THEN "process" ELSE "down"]
    /\ last' = InScan
    /\ UNCHANGED ple_only

\* The end of single_scan: go_to(min) and the processing; scan_wavelengths
\* appends the result and counts the frame.  An IndexError or a ValueError is
\* not caught by scan_thread_function (it catches DaqError): the thread ends.
PleProcess ==
    /\ ple.phase = "process"
    /\ LET r == ProcessScan(ple)
       IN  ple' = IF r.raised # None
                  THEN [ple EXCEPT !.position = <<ple.params[1].min>>,
                                   !.raised = r.raised, !.phase = "dead"]
                  ELSE [ple EXCEPT !.position = <<ple.params[1].min>>,
                                   !.outputs = Append(@, r.output),
                                   !.current_frame = @ + 1, !.phase = "begin"]
    /\ last' = InScan
    /\ UNCHANGED ple_only

\* start_scan after a finished scan: a new PleScanner is constructed.
PleNew ==
    /\ ple.phase = "done"
    /\ ple' = PleInit
    /\ last' = NoCall
    /\ UNCHANGED ple_only

NextPle ==
    \/ ConfigureScan
    \/ PleStart
    \/ PleBegin
    \/ PleUp
    \/ PleDown
    \/ PleProcess
    \/ PleNew

SpecPle == Init /\ [][NextPle]_vars

\* ------------------------------------- scans and the counter window (SpecShared)
\* The launcher holds one ScanController for its line and image scans;
\* open_counter runs qdlscope.main(), whose ScopeApplication builds a counter
\* and a ScopeController of its own.  The scan thread of the launcher's scan
\* window is thread ScanThread; the sampling workers of the counter window
\* take the free thread of the lowest number.
ScanThread == 2

NextShared ==
    \/ ScanAxisStart(ScanThread)
    \/ ScanMove(ScanThread)
    \/ ScanRead(ScanThread)
    \/ ImageStart(ScanThread)
    \/ ImageRow(ScanThread)
    \/ ImageNext(ScanThread)
    \/ StartContinuousSampling
    \/ StopSampling
    \/ \E t \in Threads : ScopeNext(t)

SpecShared == Init /\ [][NextShared]_vars

\* ------------------------------------ pause and continue of an image scan (SpecImage)
\* One ImageScanApplication window on the ScanController, with its scan
\* threads, pause_scan and continue_scan.  The positions of the slow axis are
\* floats as above; a row (the _scan_axis call of scan_image) is taken whole.
MaxImageRows == 4     \* largest n_pixels of the image window

\* np.linspace(start, stop, num) of floats: step = (stop - start) / (num - 1),
\* element i is i * step + start, and the last element is set to stop; one
\* point (0 * delta + start = start) when num = 1.  Element i (0-based).
FLinspaceAt(start, stop, num, i) ==
    IF num = 1 THEN start
    ELSE IF i = num - 1 THEN stop
    ELSE FAdd(FMulInt(i, FDivInt(FSub(stop, start), num - 1)), start)

FLinspace(start, stop, num) == [i \in 1..num |-> FLinspaceAt(start, stop, num, i - 1)]

\* _validate_value of the axis device on a float.
FValidPosition(position) ==
    /\ ~FLess(position, FromInt(min_position_microns))
    /\ ~FLess(FromInt(max_position_microns), position)

\* The fast axis, the slow axis and the pixels of a row of the window.
ImageAxis1 == "x"
ImageAxis2 == "y"

\* The `range` entries of the launcher: the window scans range / 2 to either
\* side of the position the axes have when it opens (none of them reaches the
\* axis limits, so that the window does not shift its range).
ImageRangeArgs == {FromInt(20), FromInt(1)}

image_only == <<idx, out, scope, scope_counter, ple, launcher, mover>>

\* Has the scan thread of the window assigned current_scan_index?  Before
\* that the attribute does not exist and pause_scan and continue_scan end
\* with an AttributeError.
CursorSet == n_pixels > 0 /\ \A t \in Threads : pc[t] # "st_begin"

\* ImageScanApplication.__init__: the range around the current position, the
\* positions data_y, the empty buffer, and the scan thread is started.
OpenImageScan ==
    /\ n_pixels = 0
    /\ \A t \in Threads : pc[t] = "idle"
    /\ \E n \in 1..MaxImageRows, range \in ImageRangeArgs :
         LET start == FromInt(last_write[ImageAxis2])
             min_2 == FSub(start, FDivInt(range, 2))
             max_2 == FAdd(start, FDivInt(range, 2))
         IN  /\ image' = [min_position_2 |-> <<min_2>>, max_position_2 |-> <<max_2>>,
                          data_y |-> FLinspace(min_2, max_2, n)]
             /\ n_pixels' = n
    /\ data_z' = << >>
    /\ trace' = << >>
    /\ pc' = [pc EXCEPT ![1] = "st_begin"]
    /\ UNCHANGED <<busy, scanning, stop_scan, counter, last_write, args, row,
                   current_scan_index, last, stop_row>>
    /\ UNCHANGED image_only

\* continue_scan: an error is logged when the controller is busy, without a
\* return; nothing more when the cursor is at n_pixels; else a thread with
\* continue_scan_thread_function is started.  args keeps, as history, whether
\* the controller was busy at the request.
ContinueScan ==
    /\ CursorSet
    /\ current_scan_index # n_pixels
    /\ \E t \in Threads :
         /\ pc[t] = "idle"
         /\ \A u \in Threads : pc[u] = "idle" => t <= u
         /\ pc' = [pc EXCEPT ![t] = "co_begin"]
         /\ args' = [args EXCEPT ![t] = [op |-> "continue", busy |-> busy]]
    /\ UNCHANGED <<busy, scanning, stop_scan, counter, last_write, row,
                   current_scan_index, data_z, n_pixels, last, trace, stop_row, image>>
    /\ UNCHANGED image_only

\* pause_scan of the window.
PauseImageScan == CursorSet /\ PauseScan

\* A scan thread ends: the exception, if any, is logged.
ThreadEnds(t, how) ==
    /\ pc' = [pc EXCEPT ![t] = "idle"]
    /\ args' = [args EXCEPT ![t] = NoArgs]
    /\ last' = Ended(t, [op |-> "scan_image"], how)

\* A continue that begins again at the first row.
ContinueFromFirst(dy, far, n, csi) ==
    [start_2 |-> dy[1], stop_2 |-> far, n_pixels_2 |-> n]

\* The slow-axis arguments continue_scan_thread_function passes to scan_image
\* for the positions dy, the far end max_position_2, n rows and the cursor
\* csi: from data_y[current_scan_index], the rows that remain.
ContinueArgs(dy, far, n, csi) ==
    [start_2 |-> dy[csi + 1], stop_2 |-> far, n_pixels_2 |-> n - csi]

\* start_scan_thread_function and continue_scan_thread_function up to the
\* first row: the cursor is reset (start) or the arguments are taken from the
\* cursor (continue; data_y[n_pixels] does not exist), then scan_image: busy
\* check, busy set, counter start.  Both axes are at one position when the
\* window opens, so that max_position_1 is max_position_2.
ScanThreadBegin(t) ==
    /\ pc[t] \in {"st_begin", "co_begin"}
    /\ LET first == pc[t] = "st_begin"
           csi == IF first THEN 0 ELSE current_scan_index
           far == image.max_position_2[1]
           a2 == IF first
                   THEN [start_2 |-> image.min_position_2[1], stop_2 |-> far,
                         n_pixels_2 |-> n_pixels]
                   ELSE ContinueArgs(image.data_y, far, n_pixels, csi)
       IN  /\ current_scan_index' = csi
           /\ IF csi >= n_pixels
                THEN /\ ThreadEnds(t, "IndexError")
                     /\ UNCHANGED <<busy, counter, row>>
              ELSE IF Blocked(busy)
                THEN /\ ThreadEnds(t, "RuntimeError")
                     /\ UNCHANGED <<busy, counter, row>>
              ELSE \E fail \in StartFails :
                     LET cs == CounterStart(counter, {}, fail)
                     IN  /\ busy' = Reserve
                         /\ counter' = cs.c
                         /\ row' = 0
                         /\ IF cs.raised
                              THEN ThreadEnds(t, "DeviceError")
                              ELSE /\ pc' = [pc EXCEPT ![t] = "im_row"]
                                   /\ args' = [args EXCEPT ![t] =
                                        [op |-> "scan_image",
                                         start_2 |-> a2.start_2,
                                         stop_1 |-> far,
                                         stop_2 |-> a2.stop_2,
                                         n_pixels_1 |-> n_pixels,
                                         n_pixels_2 |-> a2.n_pixels_2,
                                         scan_time |-> ScanTime]]
                                   /\ last' = NoCall
    /\ UNCHANGED <<scanning, stop_scan, last_write, data_z, n_pixels, trace,
                   stop_row, image>>
    /\ UNCHANGED image_only

\* One row of scan_image: axis_2 moves to positions_2[row], the settle delay,
\* then _scan_axis over axis_1, which ends at its last position, and the row
\* is yielded.
ScanThreadRow(t) ==
    /\ pc[t] = "im_row"
    /\ \E hwfail \in BOOLEAN :
         LET a == args[t]
             position == FLinspaceAt(a.start_2, a.stop_2, a.n_pixels_2, row)
         IN  IF ~FValidPosition(position)
               THEN /\ ThreadEnds(t, "ValueError")
                    /\ UNCHANGED <<counter, last_write, trace>>
             ELSE IF hwfail
               THEN /\ ThreadEnds(t, "DeviceError")
                    /\ trace' = Append(trace, <<"move", ImageAxis2, position, FALSE>>)
                    /\ UNCHANGED <<counter, last_write>>
             ELSE /\ trace' = Append(trace, <<"move", ImageAxis2, position, TRUE>>)
                  /\ counter' = ConfigureSampleTime(counter,
                                                    a.scan_time \div a.n_pixels_1)
                  /\ last_write' = [last_write EXCEPT ![ImageAxis2] = position,
                                                      ![ImageAxis1] = a.stop_1]
                  /\ pc' = [pc EXCEPT ![t] = "im_yield"]
                  /\ UNCHANGED <<args, last>>
    /\ UNCHANGED <<busy, scanning, stop_scan, row, current_scan_index, data_z,
                   n_pixels, stop_row, image>>
    /\ UNCHANGED image_only

\* The thread stores the row at the cursor (data_z has n_pixels rows),
\* advances the cursor and pulls again: scan_image stops on a stop request or
\* after its last row, else the next row begins.
ScanThreadStore(t) ==
    /\ pc[t] = "im_yield"
    /\ IF current_scan_index >= n_pixels
         THEN /\ ThreadEnds(t, "IndexError")
              /\ UNCHANGED <<busy, scanning, stop_scan, counter, row,
                             current_scan_index, data_z, trace>>
         ELSE LET w == StoreRow(data_z, current_scan_index,
                                [k \in 1..args[t].n_pixels_1 |-> 0])
                  k == ControllerStop(counter, {}, busy, stop_scan)
              IN  /\ data_z' = w.data_z
                  /\ current_scan_index' = w.current_scan_index
                  /\ IF StopRequested(stop_scan) \/ row + 1 = args[t].n_pixels_2
                       THEN /\ scanning' = k.scanning
                            /\ counter' = k.counter
                            /\ busy' = k.busy
                            /\ stop_scan' = k.stop_scan
                            /\ trace' = trace \o << <<"deliver", current_scan_index>>,
                                                   <<"stop">> >>
                            /\ pc' = [pc EXCEPT ![t] = "im_home"]
                            /\ UNCHANGED row
                       ELSE /\ row' = row + 1
                            /\ trace' = Append(trace, <<"deliver", current_scan_index>>)
                            /\ pc' = [pc EXCEPT ![t] = "im_row"]
                            /\ UNCHANGED <<busy, scanning, stop_scan, counter>>
                  /\ UNCHANGED <<args, last>>
    /\ UNCHANGED <<last_write, n_pixels, stop_row, image>>
    /\ UNCHANGED image_only

\* home_position after the rows: set_axis on axis_1, then on axis_2, back to
\* the position the window opened at.  The head of a set_axis: a busy
\* controller refuses and the thread ends, else busy is set.
HomePosition(t) ==
    /\ pc[t] \in {"im_home", "im_home_2"}
    /\ IF Blocked(busy)
         THEN /\ ThreadEnds(t, "RuntimeError")
              /\ UNCHANGED busy
         ELSE /\ busy' = Reserve
              /\ pc' = [pc EXCEPT ![t] = IF pc[t] = "im_home" THEN "im_home_go"
                                         ELSE "im_home_2_go"]
              /\ UNCHANGED <<args, last>>
    /\ UNCHANGED <<scanning, stop_scan, counter, last_write, row, current_scan_index,
                   data_z, n_pixels, trace, stop_row, image>>
    /\ UNCHANGED image_only

\* The rest of a set_axis of home_position: the move, then `self.busy = False`;
\* stop_scan is not touched.
HomeMove(t) ==
    /\ pc[t] \in {"im_home_go", "im_home_2_go"}
    /\ last_write' = [last_write EXCEPT
            ![IF pc[t] = "im_home_go" THEN ImageAxis1 ELSE ImageAxis2] = Zero]
    /\ busy' = FALSE
    /\ IF pc[t] = "im_home_go"
         THEN /\ pc' = [pc EXCEPT ![t] = "im_home_2"]
              /\ UNCHANGED args
         ELSE /\ pc' = [pc EXCEPT ![t] = "idle"]
              /\ args' = [args EXCEPT ![t] = NoArgs]
    /\ UNCHANGED <<scanning, stop_scan, counter, row, current_scan_index,
                   data_z, n_pixels, last, trace, stop_row, image>>
    /\ UNCHANGED image_only

NextImage ==
    \/ OpenImageScan
    \/ ContinueScan
    \/ PauseImageScan
    \/ \E t \in Threads : \/ ScanThreadBegin(t)
                          \/ ScanThreadRow(t)
                          \/ ScanThreadStore(t)
                          \/ HomePosition(t)
                          \/ HomeMove(t)

SpecImage == Init /\ [][NextImage]_vars

\* ------------------------------------------------ the launcher's line scans
\* LauncherApplication.configure_from_yaml, its set and optimize buttons, and
\* the LineScanApplication each optimize button opens: the window computed in
\* its __init__ and the worker thread that scans the window and then moves
\* the axis to final_position_axis.  Positions are microns * Scale.
\* The limits a configuration file gives the three axes.
AxisLimitSets ==
    { [a \in AxisNames |-> [min_position |-> min_position, max_position |-> max_position]],
      [a \in AxisNames |-> IF a = "z"
                             THEN [min_position |-> 0, max_position |-> 20 * Scale]
                             ELSE [min_position |-> min_position,
                                   max_position |-> max_position]] }

\* The ranges typed into line_range_xy_entry and line_range_z_entry.
LineRangeArgs == {10 * Scale, 50 * Scale, 90 * Scale}

\* The most scan windows launched.
MaxLineScans == 2

\* The axes whose buttons are pressed (the y axis is handled as the x axis is).
ButtonAxes == {"x", "z"}

\* image_range_entry and line_pixels_entry as they are left.
ImageRangeEntry == 10 * Scale
LinePixelsEntry == 2

line_rest == <<idx, row, out, current_scan_index, data_z, n_pixels, trace, stop_row,
               scope, scope_counter, ple, image, mover>>
line_only == <<launcher, line_rest>>

\* configure_from_yaml: max_x_range and max_y_range are the differences of the
\* limits of x and of y; max_z_range is assigned max_x_position - min_x_position.
ConfiguredRanges(lim) ==
    [a \in AxisNames |-> IF a = "z" THEN lim["x"].max_position - lim["x"].min_position
                         ELSE lim[a].max_position - lim[a].min_position]

\* configure_from_yaml, called once when the launcher is built: the limits of
\* each axis go to its controller and to the launcher, with the ranges.
ConfigureFromYaml ==
    /\ launcher = LauncherInit
    /\ \E lim \in AxisLimitSets :
         launcher' = [min_position |-> <<[a \in AxisNames |-> lim[a].min_position]>>,
                      max_position |-> <<[a \in AxisNames |-> lim[a].max_position]>>,
                      max_range |-> <<ConfiguredRanges(lim)>>,
                      number_scans |-> 0]
    /\ UNCHANGED <<busy, scanning, stop_scan, counter, last_write, pc, args, last>>
    /\ UNCHANGED line_rest

LauncherConfigured == launcher.max_range # << >>
MinAllowed(axis) == launcher.min_position[1][axis]
MaxAllowed(axis) == launcher.max_position[1][axis]

\* _get_scan_config: does it raise for the entries p?  (0.1 micron is
\* Scale / 10.)  The times are left valid.
ScanConfigRaises(p, max_range) ==
    \/ 10 * p.image_range < Scale
    \/ p.image_range > max_range["x"]
    \/ p.image_range > max_range["y"]
    \/ p.image_range > max_range["z"]
    \/ 10 * p.line_range_xy < Scale
    \/ p.line_range_xy > max_range["x"]
    \/ p.line_range_xy > max_range["y"]
    \/ 10 * p.line_range_z < Scale
    \/ p.line_range_z > max_range["z"]
    \/ p.line_pixels < 1

\* LineScanApplication.__init__: the window of width range around the start
\* position, shifted up when it begins below the allowed minimum and then
\* down when it ends above the allowed maximum.
LineWindow(start, range, lo, hi) ==
    LET mn0 == start - range \div 2
        mx0 == start + range \div 2
        up == IF mn0 < lo THEN lo - mn0 ELSE 0
        mn1 == mn0 + up
        mx1 == mx0 + up
        down == IF mx1 > hi THEN hi - mx1 ELSE 0
    IN  [min_position |-> mn1 + down, max_position |-> mx1 + down]

\* The axis controller's _validate_value with the limits it was configured with.
ValidOn(axis, position) ==
    position >= MinAllowed(axis) /\ position <= MaxAllowed(axis)

\* set_x_axis, set_y_axis, set_z_axis of the launcher: _get_daq_config refuses
\* a position outside the limits, set_axis refuses when busy; both are logged.
LauncherSet ==
    /\ LauncherConfigured
    /\ \E axis \in ButtonAxes :
       \E position \in {MaxAllowed(axis), MaxAllowed(axis) + Scale} :
         LET r == SetAxisCall(busy, last_write, axis, position, FALSE)
         IN  IF ~ValidOn(axis, position)
               THEN /\ last' = [call |-> [op |-> "set_button", axis |-> axis],
                                result |-> "ValueError"]
                    /\ UNCHANGED <<busy, last_write>>
               ELSE /\ busy' = r.busy
                    /\ last_write' = r.last_write
                    /\ last' = [call |-> [op |-> "set_button", axis |-> axis],
                                result |-> r.result]
    /\ UNCHANGED <<scanning, stop_scan, counter, pc, args>>
    /\ UNCHANGED line_only

\* optimize_x_axis, optimize_y_axis, optimize_z_axis: nothing when the
\* controller is busy or _get_scan_config raises; else a LineScanApplication
\* is built (start position from get_position, window, buffers) and its scan
\* thread t is started.
OptimizeAxis(t) ==
    /\ LauncherConfigured
    /\ pc[t] = "idle"
    /\ launcher.number_scans < MaxLineScans
    /\ \E axis \in ButtonAxes, rxy \in LineRangeArgs, rz \in LineRangeArgs :
         LET p == [image_range |-> ImageRangeEntry, line_range_xy |-> rxy,
                   line_range_z |-> rz, line_pixels |-> LinePixelsEntry]
             range == IF axis = "z" THEN rz ELSE rxy
             w == LineWindow(last_write[axis], range, MinAllowed(axis), MaxAllowed(axis))
         IN  IF busy \/ ScanConfigRaises(p, launcher.max_range[1])
               THEN /\ last' = [call |-> [op |-> "optimize", axis |-> axis],
                                result |-> IF busy THEN "busy" ELSE "ValueError"]
                    /\ UNCHANGED <<pc, args, launcher>>
               ELSE /\ args' = [args EXCEPT ![t] =
                                  [op |-> "line_scan", axis |-> axis, range |-> range,
                                   start_position_axis |-> last_write[axis],
                                   min_position |-> w.min_position,
                                   max_position |-> w.max_position,
                                   n |-> p.line_pixels, index |-> 0]]
                    /\ pc' = [pc EXCEPT ![t] = "ln_begin"]
                    /\ launcher' = [launcher EXCEPT !.number_scans = @ + 1]
                    /\ last' = NoCall
    /\ UNCHANGED <<busy, scanning, stop_scan, counter, last_write>>
    /\ UNCHANGED line_rest

\* The worker ends: scan_thread_function returns, after `except Exception`
\* has logged whatever was raised.
WorkerEnds(t, how) ==
    /\ pc' = [pc EXCEPT ![t] = "idle"]
    /\ args' = [args EXCEPT ![t] = NoArgs]
    /\ last' = Ended(t, [op |-> "line_scan", axis |-> args[t].axis], how)

\* scan_thread_function, the head of scan_axis: refused when busy; else busy is
\* set, the counter is started and _scan_axis sets scanning.
LineScanBegin(t) ==
    /\ pc[t] = "ln_begin"
    /\ IF Blocked(busy)
         THEN /\ WorkerEnds(t, "RuntimeError")
              /\ UNCHANGED <<busy, scanning, counter>>
         ELSE /\ busy' = Reserve
              /\ counter' = ConfigureSampleTime(CounterStart(counter, {}, "none").c,
                                                ScanTime \div args[t].n)
              /\ scanning' = TRUE
              /\ pc' = [pc EXCEPT ![t] = "ln_pixel"]
              /\ UNCHANGED <<args, last>>
    /\ UNCHANGED <<stop_scan, last_write>>
    /\ UNCHANGED line_only

\* _scan_axis, one pixel: go_to_position, which raises for a position outside
\* the axis's limits (the exception leaves scan_axis before stop()), then the
\* read of the pixel.
LineScanPixel(t) ==
    /\ pc[t] = "ln_pixel"
    /\ LET a == args[t]
           position == LinspaceAt(a.min_position, a.max_position, a.n, a.index)
       IN  IF ~ValidOn(a.axis, position)
             THEN /\ WorkerEnds(t, "ValueError")
                  /\ UNCHANGED last_write
             ELSE /\ last_write' = [last_write EXCEPT ![a.axis] = position]
                  /\ args' = [args EXCEPT ![t].index = a.index + 1]
                  /\ pc' = [pc EXCEPT ![t] = IF a.index + 1 < a.n
                                               THEN "ln_pixel" ELSE "ln_stop"]
                  /\ UNCHANGED last
    /\ UNCHANGED <<busy, scanning, stop_scan, counter>>
    /\ UNCHANGED line_only

\* The end of scan_axis: scanning off and stop(), which frees the controller.
LineScanStop(t) ==
    /\ pc[t] = "ln_stop"
    /\ LET k == ControllerStop(counter, {}, busy, stop_scan)
       IN  /\ scanning' = k.scanning
           /\ counter' = k.counter
           /\ busy' = k.busy
           /\ stop_scan' = k.stop_scan
    /\ pc' = [pc EXCEPT ![t] = "ln_update"]
    /\ UNCHANGED <<last_write, args, last>>
    /\ UNCHANGED line_only

\* update_position: _optimization_method_none makes final_position_axis the
\* start position, then the head of set_axis: refused when busy, else busy is set.
UpdatePosition(t) ==
    /\ pc[t] = "ln_update"
    /\ IF Blocked(busy)
         THEN /\ WorkerEnds(t, "RuntimeError")
              /\ UNCHANGED busy
         ELSE /\ busy' = Reserve
              /\ pc' = [pc EXCEPT ![t] = "ln_restore"]
              /\ UNCHANGED <<args, last>>
    /\ UNCHANGED <<scanning, stop_scan, counter, last_write>>
    /\ UNCHANGED line_only

\* The rest of that set_axis: the move to final_position_axis, a ValueError
\* of the axis logged, `self.busy = False`; then the worker ends.
UpdateMove(t) ==
    /\ pc[t] = "ln_restore"
    /\ last_write' = IF ValidOn(args[t].axis, args[t].start_position_axis)
                       THEN [last_write EXCEPT
                               ![args[t].axis] = args[t].start_position_axis]
                       ELSE last_write
    /\ busy' = FALSE
    /\ WorkerEnds(t, "returned")
    /\ UNCHANGED <<scanning, stop_scan, counter>>
    /\ UNCHANGED line_only

LineNext(t) ==
    \/ OptimizeAxis(t)
    \/ LineScanBegin(t)
    \/ LineScanPixel(t)
    \/ LineScanStop(t)
    \/ UpdatePosition(t)
    \/ UpdateMove(t)

NextLine == ConfigureFromYaml \/ LauncherSet \/ \E t \in Threads : LineNext(t)

SpecLine == Init /\ [][NextLine]_vars

\* ---------------------------------------- the PLE scan loop and its buttons
\* start_scan and stop_scan of the qdlple main application and the loop of
\* scan_thread_function, for scan threads that share self.current_scan.  A
\* sweep (single_scan) is one step here; its samples are in SpecPle.
\* The most scanners built in a session.
MaxPleScans == 2

\* The values of scan_num_entry.
NScansArgs == {1, 2}

pleloop_only == <<busy, scanning, stop_scan, counter, last_write, idx, row, out,
                  current_scan_index, data_z, n_pixels, last, trace, stop_row, scope,
                  scope_counter, image, launcher, mover>>

\* n_scans of the current scanner.
NScans == ple.params[1].n_scans.v

\* still_scanning() of a scanner with running flag r, frame f and n scans.
StillScanning(r, f, n) == r /\ f < n

\* start_scan: nothing when the current scanner is running; else a new
\* scanner is built and configured, it becomes current_scan, and the scan
\* thread t is started.
PleStartScan(t) ==
    /\ pc[t] = "idle"
    /\ ple.id < MaxPleScans
    /\ ~(ple.id > 0 /\ ple.running)
    /\ \E n \in NScansArgs :
         ple' = [PleInit EXCEPT !.params = <<[n_scans |-> IntArg(n)]>>,
                                !.id = ple.id + 1]
    /\ pc' = [pc EXCEPT ![t] = "pl_start"]
    /\ args' = [args EXCEPT ![t] = [op |-> "ple_scan", scan |-> ple.id + 1,
                                    after_stop |-> FALSE]]
    /\ UNCHANGED pleloop_only

\* stop_scan: stop() of the current scanner.
PleStopScan ==
    /\ ple.id > 0
    /\ ple' = [ple EXCEPT !.running = FALSE, !.stopped = TRUE]
    /\ UNCHANGED <<pc, args>>
    /\ UNCHANGED pleloop_only

\* scan_thread_function: self.current_scan.application_controller.start().
PleThreadStart(t) ==
    /\ pc[t] = "pl_start"
    /\ ple' = [ple EXCEPT !.running = TRUE]
    /\ pc' = [pc EXCEPT ![t] = "pl_loop"]
    /\ UNCHANGED args
    /\ UNCHANGED pleloop_only

\* `while self.current_scan.application_controller.still_scanning()`: the
\* scanner is the one current now.  After the last frame still_scanning
\* clears running.  scan_wavelengths is then called on that scanner.
PleStill(t) ==
    /\ pc[t] = "pl_loop"
    /\ IF StillScanning(ple.running, ple.current_frame, NScans)
         THEN /\ pc' = [pc EXCEPT ![t] = "pl_sweep"]
              /\ args' = [args EXCEPT ![t].scan = ple.id,
                                      ![t].after_stop = ple.stopped]
              /\ UNCHANGED ple
         ELSE /\ pc' = [pc EXCEPT ![t] = "pl_stop"]
              /\ ple' = [ple EXCEPT !.running = FALSE]
              /\ UNCHANGED args
    /\ UNCHANGED pleloop_only

\* scan_wavelengths: `self.outputs.append(self.single_scan())`; a scanner
\* that is no longer current_scan keeps its output to itself.
PleSweep(t) ==
    /\ pc[t] = "pl_sweep"
    /\ ple' = IF args[t].scan = ple.id
                THEN [ple EXCEPT !.outputs = Append(@, <<args[t].scan>>)]
                ELSE ple
    /\ pc' = [pc EXCEPT ![t] = "pl_count"]
    /\ UNCHANGED args
    /\ UNCHANGED pleloop_only

\* scan_wavelengths: `self.current_frame = self.current_frame + 1`, then the
\* redraw and the next test of the loop.
PleCount(t) ==
    /\ pc[t] = "pl_count"
    /\ ple' = IF args[t].scan = ple.id
                THEN [ple EXCEPT !.current_frame = @ + 1]
                ELSE ple
    /\ pc' = [pc EXCEPT ![t] = "pl_loop"]
    /\ UNCHANGED args
    /\ UNCHANGED pleloop_only

\* After the loop: stop() of the current scanner, and the thread ends.
PleThreadStop(t) ==
    /\ pc[t] = "pl_stop"
    /\ ple' = [ple EXCEPT !.running = FALSE, !.stopped = TRUE]
    /\ pc' = [pc EXCEPT ![t] = "idle"]
    /\ args' = [args EXCEPT ![t] = NoArgs]
    /\ UNCHANGED pleloop_only

PleLoopNext(t) ==
    \/ PleStartScan(t)
    \/ PleThreadStart(t)
    \/ PleStill(t)
    \/ PleSweep(t)
    \/ PleCount(t)
    \/ PleThreadStop(t)

NextPleLoop == PleStopScan \/ \E t \in Threads : PleLoopNext(t)

SpecPleLoop == Init /\ [][NextPleLoop]_vars

\* ------------------------------------------------- the counter, with fairness
\* A thread that is inside start(), stop() or _read_samples goes on to its
\* next statement; stop() polls read_lock every 0.1 s and can go on only at a
\* poll that sees it false.  No thread is obliged to make another call.
InCall(t) ==
    \/ StartConfigure(t)
    \/ StopWait(t)
    \/ StopRelease(t)
    \/ StopRunning(t)
    \/ ReadLock(t)
    \/ ReadStart(t)
    \/ ReadRead(t)
    \/ ReadFinally(t)

SpecCounterFair == SpecCounter /\ \A t \in Threads : WF_vars(InCall(t))

\* ------------------------------------------------- the movement controller
\* MovementController.move_axis and step_axis, called from the GUI thread of
\* qdlmove one after the other, on piezo positioners with the default limits.
\* The positions and steps typed into the entries.
MovePositions == {0, 20 * Scale, max_position + Scale}
StepSizes == {10 * Scale, 0 - 10 * Scale}

move_only == <<busy, scanning, stop_scan, counter, last_write, pc, args, idx, row,
               out, current_scan_index, data_z, n_pixels, trace, stop_row, scope,
               scope_counter, ple, image, launcher>>

\* go_to_position of a positioner whose last_write_value is lwv: a position
\* outside the limits raises before the write; a write that fails raises
\* before last_write_value is assigned.
PositionerGoTo(lwv, position, hwfail) ==
    IF ~ValidPosition(position)
      THEN [last_write_value |-> lwv, raised |-> "ValueError", wrote |-> FALSE]
    ELSE IF hwfail
      THEN [last_write_value |-> lwv, raised |-> "DeviceError", wrote |-> FALSE]
    ELSE [last_write_value |-> <<position>>, raised |-> None, wrote |-> TRUE]

\* step_position: with no last write it raises; else go_to_position from the
\* last write, whose exception is logged and not raised.
PositionerStep(lwv, dx, hwfail) ==
    IF lwv = << >>
      THEN [last_write_value |-> lwv, raised |-> "Exception", wrote |-> FALSE]
    ELSE [PositionerGoTo(lwv, lwv[1] + dx, hwfail) EXCEPT !.raised = None]

\* move_axis and step_axis after the busy check, g being what the positioner
\* did: `self.busy = True`, the positioner's call, `self.busy = False`; an
\* exception of the positioner leaves before the last assignment.
MoveHolds(m, name, g) ==
    [busy |-> g.raised # None,
     last_write_value |-> [m.last_write_value EXCEPT ![name] = g.last_write_value]]

\* The record of a call to the movement controller: was it made while busy,
\* how did it end, did it write to the hardware.
MoveEnded(op, name, g, was_busy) ==
    [call |-> [op |-> op, name |-> name, was_busy |-> was_busy],
     result |-> IF was_busy THEN "busy"
                ELSE IF g.raised # None THEN g.raised ELSE "returned",
     wrote |-> ~was_busy /\ g.wrote]

\* move_axis(axis_controller_name, position).
MoveAxis ==
    /\ \E name \in Positioners, position \in MovePositions, hwfail \in BOOLEAN :
         LET g == PositionerGoTo(mover.last_write_value[name], position, hwfail)
         IN  /\ mover' = IF mover.busy THEN mover ELSE MoveHolds(mover, name, g)
             /\ last' = MoveEnded("move_axis", name, g, mover.busy)
    /\ UNCHANGED move_only

\* step_axis(axis_controller_name, dx).
StepAxis ==
    /\ \E name \in Positioners, dx \in StepSizes, hwfail \in BOOLEAN :
         LET g == PositionerStep(mover.last_write_value[name], dx, hwfail)
         IN  /\ mover' = IF mover.busy THEN mover ELSE MoveHolds(mover, name, g)
             /\ last' = MoveEnded("step_axis", name, g, mover.busy)
    /\ UNCHANGED move_only

NextMove == MoveAxis \/ StepAxis

SpecMove == Init /\ [][NextMove]_vars

\* ---------------------------------------------------------------- claims
CountEvents(tr, name) == Cardinality({i \in 1..Len(tr) : tr[i][1] = name})

\* The positions an axis was commanded to, in order.
MovesOn(tr, axis) ==
    LET IsMove(e) == e[1] = "move" /\ e[2] = axis
        moves == SelectSeq(tr, IsMove)
    IN  [i \in 1..Len(moves) |-> moves[i][3]]

\* A step in which a thread calls set_axis, scan_axis or pulls scan_image for
\* the first time (home_position calls set_axis too).
CallStep(t) == SetAxis(t) \/ ScanAxisStart(t) \/ ImageStart(t) \/ ImageHome(t)

\* C1: while busy is true, a call of set_axis or scan_axis and the first pull of
\* scan_image fail with the busy error (RuntimeError), perform no axis move and
\* no counter start, stop or configure, and leave busy, scanning and stop_scan
\* as they were.
C1_BusyRefuses ==
    [][\A t \in Threads :
         (busy /\ CallStep(t)) =>
            /\ last'.result = "RuntimeError"
            /\ trace' = trace
            /\ UNCHANGED <<busy, scanning, stop_scan, counter, last_write>>]_vars

\* A line scan is between a move and its read, and an image scan was refused.
C1_Witness ==
    /\ busy
    /\ last.result = "RuntimeError"
    /\ last.call.op = "scan_image"
    /\ \E t \in Threads : pc[t] = "sa_read"

\* C2: every exit of scan_axis past the busy check (return, invalid axis name,
\* a move that raises, a counter start that raises) leaves the counter stopped,
\* busy false and scanning false.
C2_ScanAxisReleases ==
    (last.call.op = "scan_axis" /\ last.result # "RuntimeError") =>
        (~counter.running /\ ~busy /\ ~scanning)

\* The rows whose scan ends in this step, for thread t.
RowsEnd(t) == pc[t] = "im_yield" /\ pc'[t] \notin {"im_yield", "im_row"}

\* C3: when stop_scan is set while row k of n is scanned (1 <= k < n), the
\* consumer receives exactly k rows, the rows of the first k grid positions of
\* axis_2 each once, and when the rows end busy and stop_scan are false and the
\* counter's stop() was called exactly once in that scan.
C3_StopAfterRow ==
    [][\A t \in Threads :
         (RowsEnd(t) /\ stop_row >= 1 /\ stop_row < args[t].n_pixels_2) =>
            /\ current_scan_index' = stop_row
            /\ Len(data_z') = stop_row
            /\ MovesOn(trace', args[t].axis_2) =
                 [i \in 1..stop_row |->
                     args[t].start_2 + ((i - 1) * (args[t].stop_2 - args[t].start_2))
                                        \div (args[t].n_pixels_2 - 1)]
            /\ CountEvents(trace', "read") = stop_row * args[t].n_pixels_1
            /\ ~busy'
            /\ ~stop_scan'
            /\ CountEvents(trace', "stop") = 1]_vars

\* A scan of three rows was stopped during its second row and has ended.
C3_Witness ==
    \E t \in Threads :
       /\ pc[t] = "im_home"
       /\ args[t].n_pixels_2 = 3
       /\ stop_row = 2
       /\ current_scan_index = 2
       /\ Len(data_z) = 2
       /\ CountEvents(trace, "stop") = 1
       /\ ~busy

C6_ScanAxisSequence ==
    (last.call.op = "scan_axis" /\ last.result = "returned") =>
        LET c == last.call
            m == MovesOn(trace, c.axis)
        IN  /\ Len(trace) = 2 * c.n + 3
            /\ trace[1] = <<"start", TRUE>>
            /\ trace[2] = <<"configure", c.scan_time \div c.n>>
            /\ c.n * (c.scan_time \div c.n) = c.scan_time
            /\ counter.sample_time = c.scan_time \div c.n
            /\ Len(out) = c.n
            /\ \A i \in 1..c.n :
                  /\ trace[2 * i + 1] = <<"move", c.axis, m[i], TRUE>>
                  /\ trace[2 * i + 2] = <<"read", out[i]>>
            /\ trace[2 * c.n + 3] = <<"stop">>
            /\ Len(m) = c.n
            /\ m[1] = c.start
            /\ c.n > 1 => m[c.n] = c.stop
            /\ \A i \in 1..(c.n - 1) : (c.n - 1) * (m[i + 1] - m[i]) = c.stop - c.start

\* A scan of three pixels returned, with different counts along the line.
C6_Witness ==
    /\ last.call.op = "scan_axis"
    /\ last.result = "returned"
    /\ last.call.n = 3
    /\ out = <<0, 1, 0>>
    /\ last_write["x"] = 10 * Scale

\* A step that is a set_axis call with a position outside the axis bounds,
\* made while the controller is free.
OutOfBoundsStep ==
    /\ ~busy
    /\ \E t \in Threads : SetAxis(t)
    /\ last'.call.op = "set_axis"
    /\ last'.call.axis \in AxisNames
    /\ ~ValidPosition(last'.call.position)

C8_SetAxisReleases ==
    (last.call.op = "set_axis" /\ last.result # "RuntimeError") => ~busy

\* C9: no torn reads.  Under every interleaving of stop() with a batch read,
\* the clock and counter tasks are not closed while a read is in flight
\* (read_lock true), and no read starts on tasks that stop() has closed.
C9_NoTornRead ==
    counter.read_lock =>
        (counter.clock_task # "closed" /\ counter.counter_task # "closed")

\* C10: stop() ends with running false and does not raise, whether or not the
\* read before it failed and whether or not a release step raises; when it
\* found the counter running, every release step was attempted.
C10_StopAlwaysStops ==
    last.call.op = "stop" =>
        /\ last.result = "returned"
        /\ ~counter.running
        /\ last.call.was_running => last.call.attempted = ReleaseStepSet

\* stop() returned after its first release step, clock_task.stop(), raised.
C10_Witness ==
    /\ last.call.op = "stop"
    /\ last.result = "returned"
    /\ "clock_stop" \in last.call.failed
    /\ last.call.attempted = ReleaseStepSet
    /\ ~counter.running
    /\ counter.counter_task = "closed"

\* C5: the busy check and set are atomic.  When two threads call set_axis or
\* scan_axis on one ScanController, under every interleaving at most one of
\* them is past the busy check, so two workers never move axes or read the
\* counter at the same time.
C5_OnePassesCheck ==
    Cardinality({t \in Threads : pc[t] # "idle"}) <= 1

\* C11: a device error during a batch read reaches the caller as an error.  A
\* read whose counter_task.start() or buffer read raised does not end as a
\* normal return carrying a result.
C11_ReadErrorPropagates ==
    (last.call.op = "read" /\ last.call.raised) => last.result # "returned"

\* C12: sampling one batch on a counter that another thread stopped gives a
\* result of the same shape as a normal one, so the scan that stores it per
\* pixel does not fail: no scan_axis call ends with the ValueError of the store
\* `output[index] = counts`.
C12_StoppedReadStores ==
    last.call.op = "scan_axis" => last.result # "ValueError"

\* The sums of the counts and of the cycles that the batch reads of an n-batch
\* call returned.
ReadCounts(reads) == ColumnSum(reads, 1)

ReadCycles(reads) == ColumnSum(reads, 2)

\* C13: an n-batch call whose reads returned (c_i, k_i) returns; with
\* aggregation the raw result is the one pair (sum c_i, sum k_i), without it
\* the n pairs in read order; the counts view is sum c_i and the elapsed-time
\* view is sum k_i / clock_rate.
C13_NBatchesSums ==
    (last.call.op = "sample_nbatches" /\ ~last.call.is_tuple
        /\ last.call.view \in {"raw", "counts", "time"}) =>
        /\ last.result = "returned"
        /\ LET a == last.call
               c == ReadCounts(a.reads)
               k == ReadCycles(a.reads)
           IN  /\ Len(a.reads) = a.n_batches
               /\ (a.view = "raw" /\ a.sum_counts) =>
                      a.value = << <<Float(c), Float(k)>> >>
               /\ (a.view = "raw" /\ ~a.sum_counts) =>
                      a.value = [i \in 1..a.n_batches |->
                                    <<Float(a.reads[i][1]), Float(a.reads[i][2])>>]
               /\ (a.view = "counts" /\ a.sum_counts) => a.value = <<Float(c)>>
               /\ (a.view = "time" /\ a.sum_counts) =>
                      a.value = << <<Float(c), SecondsOf(k)>> >>

\* C14: when a batch read reports zero cycles the rate view returns nan and
\* does not raise: the single-batch rate, the n-batch rate of the counter and
\* the rate of RateCounterBase from n batches all return, with nan wherever the
\* cycles are zero.
C14_ZeroCyclesRateNaN ==
    /\ (last.call.op = "sample_batch" /\ last.call.view = "rate"
            /\ ~last.call.is_tuple /\ last.call.samples_read = 0) =>
           (last.result = "returned" /\ last.call.value = <<NaN>>)
    /\ (last.call.op = "sample_nbatches" /\ last.call.view = "count_rate") =>
           /\ last.result = "returned"
           /\ ReadCycles(last.call.reads) = 0 => last.call.value = <<NaN>>
    /\ (last.call.op = "sample_nbatches" /\ last.call.view = "rate"
            /\ ~last.call.is_tuple) =>
           /\ last.result = "returned"
           /\ LET output == RawResult(last.call.data, last.call.sum_counts)
              IN  \A i \in 1..Len(output) :
                      output[i][2] = 0 => last.call.value[i] = NaN

\* dwell * clock_rate rounded to the nearest integer.
RoundCycles(sample_time) == (2 * sample_time * clock_rate + Scale) \div (2 * Scale)

\* Is n the integer part of dwell * clock_rate?
IsTruncation(n, sample_time) ==
    /\ n * Scale <= sample_time * clock_rate
    /\ sample_time * clock_rate < (n + 1) * Scale

Workers == {t \in Threads : Working(t)}

\* C16: a start while sampling is running launches no second producer: after
\* any sequence of start and stop requests at most one sampling worker exists
\* at any time.
C16_OneWorker == Cardinality(Workers) <= 1

\* C17: after a stop request the producing loop delivers at most one further
\* sample (the read in flight) and then leaves the loop.
C17_OneMoreSample ==
    \A t \in Workers : args[t].since_stop <= 1

\* C18: after an accepted reset the accumulated samples are empty and the
\* total measurement time is zero, and they stay so until the next start.
C18_ResetStaysEmpty ==
    scope.since_reset =>
        /\ scope.data_x = << >>
        /\ scope.data_y = << >>
        /\ scope.total_measurement_time = 0

\* C19: the stream is stopped once the accumulated samples reach the cap, so
\* the buffer never holds more samples than max_allowed_samples.
C19_BufferWithinCap ==
    /\ Len(scope.data_x) <= max_allowed_samples
    /\ Len(scope.data_y) <= max_allowed_samples

\* stop() of a ScanController with flags b (busy), ss (stop_scan) on the counter
\* c, as the state it leaves.
AfterControllerStop(c, F, b, ss) ==
    LET k == ControllerStop(c, F, b, ss)
    IN  [counter |-> k.counter, busy |-> k.busy, stop_scan |-> k.stop_scan,
         scanning |-> k.scanning]

PlannedSamples(n) == n.v * ple.params[1].n_subpixels.v

\* C21: once configure_scan has accepted its parameters, the up-sweep sample
\* grid has n_pixels_up * n_subpixels points, the down-sweep sample grid
\* n_pixels_down * n_subpixels points, and the pixel grids n_pixels_up and
\* n_pixels_down points.
C21_GridSizes ==
    ple.params # << >> =>
        /\ Len(ple.sample_voltages_up) = PlannedSamples(ple.params[1].n_pixels_up)
        /\ Len(ple.sample_voltages_down) = PlannedSamples(ple.params[1].n_pixels_down)
        /\ Len(ple.pixel_voltages_up) = ple.params[1].n_pixels_up.v
        /\ Len(ple.pixel_voltages_down) = ple.params[1].n_pixels_down.v

\* The lowest exponent among the floats of S that are not zero.
MinExp(S) ==
    LET E == {x.e : x \in {y \in S : y.m # 0}}
    IN  IF E = {} THEN 0 ELSE CHOOSE e \in E : \A f \in E : e <= f

Abs(x) == IF x < 0 THEN 0 - x ELSE x

\* Is the float v the position first + i * (far - first) / n, up to the
\* rounding of floats: nearer to it than half a step?
NearPlanned(v, first, far, n, i) ==
    LET e == MinExp({v, first, far})
        V == Shift(v, e)
        A == Shift(first, e)
        B == Shift(far, e)
    IN  2 * Abs(n * V - (n * A + i * (B - A))) < Abs(B - A)

\* Does the float v stay short of the far end of its sweep, by half a step of
\* (far - first) / n at least?
ShortOf(v, first, far, n) ==
    LET e == MinExp({v, first, far})
        V == Shift(v, e)
        A == Shift(first, e)
        B == Shift(far, e)
    IN  IF B > A THEN 2 * n * (B - V) >= B - A ELSE 2 * n * (V - B) >= A - B

\* Are the floats v and w one position, up to the rounding of floats: nearer
\* than half a step of (far - first) / n?
SamePosition(v, w, first, far, n) ==
    LET e == MinExp({v, w, first, far})
    IN  2 * n * Abs(Shift(v, e) - Shift(w, e)) < Abs(Shift(far, e) - Shift(first, e))

\* The grids of one sweep direction from first towards far: every sample is
\* at its planned position and short of far, and every pixel is at the first
\* sample of its bin.
SweepPlanned(samples, pixels, first, far, n, sub) ==
    /\ \A i \in 1..Len(samples) :
        /\ NearPlanned(samples[i], first, far, n * sub, i - 1)
        /\ ShortOf(samples[i], first, far, n * sub)
    /\ \A j \in 1..Len(pixels) :
        /\ (j - 1) * sub + 1 \in 1..Len(samples)
        /\ SamePosition(pixels[j], samples[(j - 1) * sub + 1], first, far, n * sub)

\* C22: the planned grids are half-open and start-aligned: up-sweep sample i
\* is at range_min + i * (range_max - range_min) / (n_pixels_up * n_subpixels)
\* and never reaches range_max, down-sweep sample i is at range_max -
\* i * (range_max - range_min) / (n_pixels_down * n_subpixels) and never
\* reaches range_min, and in each direction pixel j is at the position of
\* sample j * n_subpixels.  Positions are compared up to the rounding of
\* floats (half a sample step).
C22_GridsHalfOpen ==
    ple.params # << >> =>
        LET p == ple.params[1]
        IN  /\ SweepPlanned(ple.sample_voltages_up, ple.pixel_voltages_up,
                            p.min, p.max, p.n_pixels_up.v, p.n_subpixels.v)
            /\ SweepPlanned(ple.sample_voltages_down, ple.pixel_voltages_down,
                            p.max, p.min, p.n_pixels_down.v, p.n_subpixels.v)

\* The pixel (from 1) that sample i (from 1) of a sweep belongs to, and the
\* sum of the raw counts of the samples of pixel j.
PixelOf(i, sub) == (i - 1) \div sub + 1

RECURSIVE BinSum(_, _, _, _)
BinSum(raw, j, sub, i) ==
    IF i > Len(raw) THEN 0
    ELSE (IF PixelOf(i, sub) = j THEN raw[i] ELSE 0) + BinSum(raw, j, sub, i + 1)

\* The pixels of one sweep, as part `part` of the scan result: every raw
\* sample belongs to one of the n pixels, pixel j is the sum of its samples
\* divided by the pixel dwell time, and a stream of ones sums to n_subpixels.
SweepBinned(part, raw, n, sub, pixel_time) ==
    /\ Len(part) = n
    /\ \A i \in 1..Len(raw) : PixelOf(i, sub) \in 1..n
    /\ \A j \in 1..n :
        /\ part[j] = FDiv(FromInt(BinSum(raw, j, sub, 1)), pixel_time)
        /\ ple.stream = "ones" => BinSum(raw, j, sub, 1) = sub

\* C23: a single scan of a configured scanner returns, for each sweep
\* direction, pixels whose count is the sum of the raw counts of their own
\* n_subpixels samples and nothing else, divided by that direction's pixel
\* dwell time; the result is the up-sweep pixels followed by the down-sweep
\* pixels; a stream of all-ones samples gives n_subpixels counts in every pixel.
C23_PixelsSumSamples ==
    /\ ple.phase # "dead"
    /\ ple.outputs # << >> /\ ple.phase \in {"begin", "done"} =>
        LET o      == ple.outputs[Len(ple.outputs)]
            n_up   == ple.params[1].n_pixels_up.v
            n_down == ple.params[1].n_pixels_down.v
            n_sub  == ple.params[1].n_subpixels.v
        IN  /\ Len(o) = n_up + n_down
            /\ SweepBinned(SubSeq(o, 1, n_up), ple.raw_up, n_up, n_sub,
                           ple.pixel_time_up[1])
            /\ SweepBinned(SubSeq(o, n_up + 1, n_up + n_down), ple.raw_down,
                           n_down, n_sub, ple.pixel_time_down[1])

\* The invalid parameters the validation rule lists: range_max <= range_min,
\* a pixel or sub-pixel count below 1 or not an integer, a sweep time <= 0.
InvalidParameters(p) ==
    \/ ~FLess(p.min, p.max)
    \/ \E n \in {p.n_pixels_up, p.n_pixels_down, p.n_subpixels} :
        n.type # "int" \/ n.v < 1
    \/ \E t \in {p.time_up, p.time_down} : ~FLess(Zero, t)

\* C24: on a scanner that is not scanning, whatever it holds, configure_scan
\* with an invalid parameter raises ValueError and leaves the scanner as it
\* was: the stored parameters, the grids and the dwell times, the position of
\* the wavelength controller and the number of reads made.
C24_InvalidRejected ==
    ple.phase = "idle" =>
        \A p \in ConfigureArgs :
            InvalidParameters(p) =>
                ConfigureRaises(p) /\ ConfigureScanCall(ple, p) = ple

\* configure_scan has raised on a scanner that holds an earlier configuration.
C24_Witness ==
    /\ ple.phase = "idle"
    /\ ple.params # << >>
    /\ last.call.op = "configure_scan"
    /\ last.result = "ValueError"

\* ------------------------------------------------ scans and the counter window
\* Is an operation of the kind in progress: a thread is inside the loop of a
\* line scan, between the rows of an image scan, or inside the producing loop
\* of the continuous sampler (its counter started, not yet stopped).
InProgress(kind) ==
    \E t \in Threads :
        pc[t] \in (CASE kind = "line"  -> {"sa_move", "sa_read"}
                     [] kind = "image" -> {"im_row", "im_move", "im_read", "im_yield"}
                     [] kind = "scope" -> {"sc_loop", "sc_read"})

\* C25: at most one of a line scan, an image scan and continuous sampling is
\* in progress at any time; whenever one of them is, the one busy flag is set
\* for it.
C25_OneOwner ==
    /\ Cardinality({kind \in {"line", "image", "scope"} : InProgress(kind)}) <= 1
    /\ (\E kind \in {"line", "image", "scope"} : InProgress(kind)) => busy

\* ---------------------------------------------------------------- get_position
\* C26: get_position returns in every controller state, also while busy is
\* true, with the value last written to each of the x, y and z axes, and
\* changes nothing of the controller, the counter or the axes.
C26_GetPositionReadOnly ==
    [][ (last'.call.op = "get_position" /\ last' # last) =>
            /\ last'.result = "returned"
            /\ last'.value = <<last_write["x"], last_write["y"], last_write["z"]>>
            /\ UNCHANGED <<busy, scanning, stop_scan, counter, last_write, pc, args>>
      ]_vars

\* get_position was called while a call held the controller, after an axis
\* was moved away from its initial position.
C26_Witness ==
    /\ last.call.op = "get_position"
    /\ busy
    /\ last.value[1] # 0

\* ------------------------------------------------------- image scans: errors
\* C27: every exit of scan_image by an exception past the busy check (an
\* invalid axis name, a counter start, a move of axis_2 or of axis_1 or a
\* counter read that raises in any row) leaves the counter stopped and busy
\* false, so that the next operation is accepted.
C27_ImageErrorReleases ==
    (last.call.op = "scan_image" /\ last.result # "RuntimeError") =>
        (~counter.running /\ ~busy)

\* ------------------------------------------------------- image scans: order
\* The events of one complete row of n1 pixels: the move of axis_2, the
\* settle delay, the dwell configuration, n1 pairs of a move of axis_1 and a
\* read, and the delivery of the row.
RowEvents(n1) == 2 * n1 + 4

\* Is p on the grid of num evenly spaced points from start to stop, both
\* included, at index i (0-based)?
OnGrid(p, start, stop, num, i) ==
    IF num = 1 THEN p = start
    ELSE (num - 1) * (p - start) = i * (stop - start)

\* Is event e what scan_image with the arguments a does at place q (0-based)
\* of its row r?
RowEventAt(e, a, r, q) ==
    IF q = 0 THEN /\ e[1] = "move" /\ e[2] = a.axis_2 /\ e[4]
                  /\ OnGrid(e[3], a.start_2, a.stop_2, a.n_pixels_2, r)
    ELSE IF q = 1 THEN e = <<"settle">>
    ELSE IF q = 2 THEN e = <<"configure", a.scan_time \div a.n_pixels_1>>
    ELSE IF q = RowEvents(a.n_pixels_1) - 1 THEN e = <<"deliver", r>>
    ELSE IF q % 2 = 1
      THEN /\ e[1] = "move" /\ e[2] = a.axis_1 /\ e[4]
           /\ OnGrid(e[3], a.start_1, a.stop_1, a.n_pixels_1, (q - 3) \div 2)
    ELSE e[1] = "read"

\* The events of the rows of thread t so far: how many events of the row in
\* progress have happened, by the place of the thread.
EventsInRow(t) ==
    CASE pc[t] = "im_row"   -> 0
      [] pc[t] = "im_move"  -> 3 + 2 * idx
      [] pc[t] = "im_read"  -> 4 + 2 * idx
      [] pc[t] = "im_yield" -> RowEvents(args[t].n_pixels_1) - 1

\* C28: the hardware actions of a scan_image are one sequence: after the
\* counter start, row after row, the move of axis_2 to the row's grid
\* position, the settle delay, then for each pixel in order the move of axis_1
\* to the pixel's grid position and one read, then the delivery of the row;
\* nothing of a row happens before the row before it was delivered.
C28_RowsInOrder ==
    \A t \in Threads :
        pc[t] \in {"im_row", "im_move", "im_read", "im_yield"} =>
            LET a == args[t]
                B == RowEvents(a.n_pixels_1)
                o == IF trace[1][1] = "stop" THEN 2 ELSE 1
            IN  /\ trace[o] = <<"start", TRUE>>
                /\ Len(trace) = o + row * B + EventsInRow(t)
                /\ \A j \in (o + 1)..Len(trace) :
                      RowEventAt(trace[j], a, (j - o - 1) \div B, (j - o - 1) % B)

\* The second pixel of the third row is about to be read.
C28_Witness ==
    \E t \in Threads : pc[t] = "im_read" /\ row = 2 /\ idx = 1

\* -------------------------------------------------- image scans: partial data
\* Does the scan_image of thread t end by an exception inside a row in this
\* step?
RowFails(t) == pc[t] \in {"im_row", "im_move", "im_read"} /\ pc'[t] = "idle"

\* C30: when row r of an image scan fails, the consumer's buffer keeps the r
\* rows delivered before, unchanged, and the cursor is r, the number of rows
\* delivered; nothing changes them while the failed scan is the last call.
C30_PartialRowsKept ==
    [][ /\ \A t \in Threads :
             RowFails(t) =>
                /\ data_z' = data_z
                /\ Len(data_z') = row
                /\ current_scan_index' = row
                /\ CountEvents(trace', "deliver") = row
        /\ (last.call.op = "scan_image" /\ last.result # "RuntimeError" /\ last' = last) =>
                (data_z' = data_z /\ current_scan_index' = current_scan_index)
      ]_vars

\* The third row of an image scan failed on a DAQ write; two rows are stored.
C30_Witness ==
    /\ last.call.op = "scan_image"
    /\ last.result = "DeviceError"
    /\ row = 2
    /\ Len(data_z) = 2
    /\ current_scan_index = 2

\* ---------------------------------------------------- image scans: continue
\* The row indices the scan threads stored rows at, in order.
Delivered(tr) ==
    LET IsDeliver(e) == e[1] = "deliver"
        d == SelectSeq(tr, IsDeliver)
    IN  [i \in 1..Len(d) |-> d[i][2]]

\* The scan of the window, in one piece or paused and continued: the cursor
\* never exceeds n_pixels, the rows were stored at the indices 0, 1, ... up
\* to the cursor, each once, the slow axis was moved to one position per row
\* begun, and at the end of the scan to n_pixels positions.
RowsOnce ==
    /\ current_scan_index <= n_pixels
    /\ Delivered(trace) = [i \in 1..current_scan_index |-> i - 1]
    /\ Len(data_z) = current_scan_index
    /\ Len(MovesOn(trace, ImageAxis2)) \in {current_scan_index, current_scan_index + 1}
    /\ Len(MovesOn(trace, ImageAxis2)) <= n_pixels

\* C29: a scan that is paused and continued is the scan in one piece: the
\* positions axis_2 is moved to over all segments are the positions data_y of
\* the window, exactly and in order, each row index is written once, and the
\* cursor ends at n_pixels and never exceeds it.
C29_ResumeEquivalent ==
    /\ RowsOnce
    /\ LET m == MovesOn(trace, ImageAxis2)
       IN  \A i \in 1..Len(m) : m[i] = image.data_y[i]

\* C29, with the positions up to the rounding of floats: the position of
\* row i of a continued segment is nearer to data_y[i] than half a step of
\* the grid, the first position of every segment is data_y at the cursor
\* itself, and the last of several rows is at max_position_2 itself.
C29_ResumeNearGrid ==
    /\ RowsOnce
    /\ LET m == MovesOn(trace, ImageAxis2)
       IN  \A i \in 1..Len(m) :
             /\ SamePosition(m[i], image.data_y[i], image.min_position_2[1],
                             image.max_position_2[1], n_pixels)
             /\ (i = n_pixels /\ n_pixels > 1) => m[i] = image.max_position_2[1]
    /\ \A t \in Threads :
          pc[t] = "im_row" /\ row = 0 =>
              args[t].start_2 = image.data_y[current_scan_index + 1]

\* A window of four rows was paused in its first row and continued, and the
\* continued scan has stored its last row: the cursor is at n_pixels.
C29_Witness ==
    /\ n_pixels = 4
    /\ current_scan_index = 4
    /\ CountEvents(trace, "stop") >= 2
    /\ \E t \in Threads : pc[t] = "im_home" /\ args[t].n_pixels_2 = 3

\* ------------------------------------------------------- the stop-request flag
\* C31: whenever the controller is idle (busy false) no stop request is
\* pending, so that a scan accepted later is not cut short by a pause that
\* was aimed at an earlier holder of the controller.
C31_StopFlagCleared == ~busy => ~stop_scan

\* ------------------------------------------------------- the line scan claims
LineWorkers == {t \in Threads : args[t].op = "line_scan"}

\* C32: the window of every line scan that the parameter validation accepted
\* has the requested width after the edge shift and lies inside the allowed
\* range of the axis it scans.
C32_WindowInBounds ==
    \A t \in LineWorkers :
        /\ args[t].max_position - args[t].min_position = args[t].range
        /\ args[t].min_position >= MinAllowed(args[t].axis)
        /\ args[t].max_position <= MaxAllowed(args[t].axis)

\* C33: when a line scan worker that has scanned its window ends, the last
\* position written to the scanned axis is the position the axis had when
\* the window was opened.
C33_StartRestored ==
    [][\A t \in Threads :
          (pc[t] \in {"ln_update", "ln_restore"} /\ pc'[t] = "idle")
              => last_write'[args[t].axis] = args[t].start_position_axis]_vars

\* ---------------------------------------------------- continue while busy
\* C34: a continue requested while the controller is busy is rejected: the
\* thread it started ends without moving an axis, starting or stopping the
\* counter, or changing the cursor, the image buffer or busy.  (A continue
\* with the cursor at n_pixels starts no thread.)
C34_BusyContinueRejected ==
    [][\A t \in Threads :
          (pc[t] = "co_begin" /\ args[t].busy /\ pc'[t] # "co_begin")
              => /\ pc'[t] = "idle"
                 /\ UNCHANGED <<busy, last_write, counter, current_scan_index, data_z>>]_vars

\* ------------------------------------------------ busy and the host's rows
\* C35: busy is false in every state in which the host holds a delivered row
\* (it stores and draws the row before it asks for the next one).
C35_IdleWhileRendering ==
    \A t \in Threads : pc[t] = "im_yield" => ~busy

\* ------------------------------------------------------- the PLE scan loop
\* A thread is inside scan_wavelengths of the current scanner.
InSweep(t) == pc[t] \in {"pl_sweep", "pl_count"} /\ args[t].scan = ple.id

\* C36: the loop performs at most n_scans sweeps: current_frame never exceeds
\* n_scans and, between sweeps, is the number of outputs; once stop() has been
\* called on a scanner running stays false and no sweep of it is started.
C36_AtMostNScans ==
    ple.id > 0 =>
        /\ ple.current_frame <= NScans
        /\ Len(ple.outputs) <= NScans
        /\ (\A t \in Threads : ~InSweep(t)) => Len(ple.outputs) = ple.current_frame
        /\ ple.stopped => ~ple.running
        /\ \A t \in Threads : InSweep(t) => ~args[t].after_stop

\* ------------------------------------------------------------ the read lock
\* A thread is between `self.read_lock = True` and the end of the finally
\* clause of _read_samples.
Reading(t) == pc[t] \in {"rd_start", "rd_read", "rd_finally"}

\* read_lock is true only while a batch read is executing.
LockOnlyWhileReading == counter.read_lock => \E t \in Threads : Reading(t)

\* Every exit of _read_samples, whether the read raised or not, leaves
\* read_lock false.
ExitClearsLock ==
    \A t \in Threads : (Reading(t) /\ pc'[t] = "idle") => ~counter'.read_lock

\* A stop() (or the stop() inside start()) that waits on read_lock leaves
\* its wait.
StopLeavesWait == \A t \in Threads : (pc[t] = "st_wait") ~> (pc[t] # "st_wait")

\* C37: read_lock is true only while a batch read is executing, every exit of
\* the read routine clears it, and a stop() that waits on it does not wait
\* forever when the reads terminate.
C37_LockNeverStale ==
    /\ []LockOnlyWhileReading
    /\ [][ExitClearsLock]_vars
    /\ StopLeavesWait

\* ------------------------------------------------------ the scope's time axis
\* C38: the timestamps of the sample buffer are relative to one origin and do
\* not decrease in buffer order, and the two buffers have one length, also
\* after start, stop, start with no reset between.  A timestamp counts the
\* reads (dwell times) since its origin: with one origin, the sample at place
\* i of the buffer was read no sooner than i dwell times after it.
C38_OneTimeOrigin ==
    /\ Len(scope.data_x) = Len(scope.data_y)
    /\ \A i \in 1..(Len(scope.data_x) - 1) : scope.data_x[i] <= scope.data_x[i + 1]
    /\ \A i \in 1..Len(scope.data_x) : scope.data_x[i] >= i

\* --------------------------------------------------- the movement controller
\* C39: a move_axis or step_axis made while the MovementController is busy
\* writes nothing to the hardware, and after every move_axis or step_axis
\* call, also one whose positioner raised, busy is false.
C39_MoveReleases ==
    /\ ~mover.busy
    /\ (last.call.op \in {"move_axis", "step_axis"} /\ last.call.was_busy)
           => ~last.wrote

====
